---- MODULE Spec2Model ----
(***************************************************************************)
(* Chain-of-custody ledger of yashikart/chain-of-custody.                  *)
(*                                                                         *)
(* Two servers implement the ledger:                                       *)
(*   "routes" : backend/server.js with routes/upload.js, routes/move.js,   *)
(*              routes/download.js over the Mongoose model ChainOfCustody; *)
(*   "simple" : backend/simple-server.js over two in-memory Maps.          *)
(* A behaviour runs one of them (variable server).  Every request handler  *)
(* is cut at its awaits: the code between two awaits runs in one Node.js   *)
(* tick and is one action; a database read or write that an await waits    *)
(* for is applied in the action that resumes the handler.                  *)
(***************************************************************************)
EXTENDS Integers, Sequences, FiniteSets, TLC

\* ---------------------------------------------------------------- bounds
MaxReq == 2        \* requests that can be in flight at the same time
MaxUploads == 2    \* files multer stores in one behaviour of simple-server.js
MaxDocs == 1       \* files multer stores in one behaviour of the routes server
MaxChain == 3      \* custody events of one record
MaxBatch == 2      \* fileIds in one batch move
MaxClock == 1      \* ticks of the wall clock
MaxEntries == 2    \* entries in one custody chain of the hash utility
MaxAudit == 2      \* events in the hash utility's audit log

Requests == 1..MaxReq
DocIds == 1..MaxDocs              \* the values the routes server draws
FileIds == 1..MaxUploads           \* crypto.randomUUID() values, in the order drawn
Names == 1..MaxUploads            \* multer's unique file names, in the order drawn
NoId == 0                         \* a fileId the request does not carry
Locations == {"uploads", "archive"}
Users == {"u1"}
Contents == {"c1"}                \* bytes a client uploads
Tampered == "x"                   \* bytes written over a stored file from outside
Absent == "absent"                \* no file at that path
Statuses == {"active", "archived", "deleted"}
Paths == Locations \X Names       \* <<directory under backend/, file name>>
NoPath == <<"", 0>>

\* SHA-256 of the bytes as a hex string: crypto.createHash('sha256'),
\* hash.update(data), hash.digest('hex').
sha256(content) ==
  CASE content = "c1" -> "h1"
    [] content = Tampered -> "hx"
    [] OTHER -> "h0"

Rejected == "rejected"            \* a promise that rejects
HashPaths == {<<"uploads", 1>>}   \* the files the hash utility is run on
NewPaths == Locations \X {1}      \* values of the newPath argument of its move command
Algorithms == {"sha256", "md5", "crc32"}   \* values of the utility's algorithm argument
TrackAlgorithms == {"sha256", "crc32"}      \* its values when the hash is recorded
ExpectedHashes == {"h1", "H1", "hx", "m1"} \* values of its expectedHash argument

BatchLists == UNION {[1..n -> DocIds] : n \in 0..MaxBatch}

\* ----------------------------------------------------------------- state
VARIABLES
  server,        \* which server runs: "routes" or "simple"
  db,            \* routes: the ChainOfCustody collection, fileId -> document
  files,         \* simple: Map files, fileId -> file record
  custodyChain,  \* simple: Map custodyChain, fileId -> array of entries
  disk,          \* the file system: path -> bytes or Absent
  req,           \* the request handlers in flight, with their local variables
  nextName,      \* next unique file name of multer
  nextId,        \* next value of crypto.randomUUID()
  clock,         \* Date.now(), in ticks
  custodyDb,     \* hash utility: files of custody-database.json, fileId -> record
  auditLog,      \* hash utility: events of audit-log.json
  ipfs,          \* IPFS simulator: its nodes and its registry of files
  last           \* the response sent by the last step, if it sent one, with
                 \* the history of its handler

vars == <<server, db, files, custodyChain, disk, req, nextName, nextId, clock, custodyDb, auditLog, ipfs, last>>

\* Variant: every event is written with the action upload.
CustodyEvent_upload(action, userId, location) ==
  [action |-> "upload", userId |-> userId, location |-> location, timestamp |-> clock]

\* An element of custodyChain; its timestamp is the time at which the
\* handler builds it (timestamp: new Date(), and default: Date.now of the
\* schema, applied when the element is pushed).
CustodyEvent(action, userId, location) ==
  [action |-> action, userId |-> userId, location |-> location, timestamp |-> clock]

\* req.file as multer hands it to the handler: the client's name for the
\* file, the number of bytes stored, the declared media type.
size(content) == IF content = Tampered THEN 1 ELSE 2

NoFile == [originalname |-> 0, size |-> 0, mimetype |-> ""]

File(name, content) == [originalname |-> name, size |-> size(content), mimetype |-> "text/plain"]

NoDoc ==
  [found |-> FALSE, fileId |-> NoId, filePath |-> NoPath, checksum |-> "",
   originalFileName |-> 0, fileSize |-> 0, mimeType |-> "",
   createdAt |-> 0, updatedAt |-> 0,
   currentLocation |-> "", status |-> "", custodyChain |-> <<>>]

\* A handler that is not running.  doc is the handler's local Mongoose
\* document, orig the values of its scalar paths as loaded or last saved,
\* nsaved the number of elements of doc.custodyChain the database holds.
\* previousLocation is the value a move answers with.  moved, appended,
\* altered, stale, streamed, before and after only record what the handler
\* did or saw (history), no handler reads them; before and after are the
\* stored currentLocation around the step that appended a move's event.
IdleReq ==
  [kind |-> "idle", pc |-> "idle", fileId |-> NoId, fileIds |-> <<>>,
   userId |-> "", newLocation |-> "", hasFile |-> FALSE, path |-> NoPath,
   doc |-> NoDoc, orig |-> [currentLocation |-> "", filePath |-> NoPath],
   nsaved |-> 0, resp |-> "none", outcome |-> "none", results |-> <<>>,
   moved |-> FALSE, appended |-> 0, altered |-> FALSE, stale |-> FALSE,
   streamed |-> "none", previousLocation |-> "", before |-> "", after |-> "",
   file |-> NoFile, algorithm |-> "", expectedHash |-> "",
   hash |-> "", db |-> <<>>, auditLog |-> <<>>,
   nodeId |-> "", pinToNodes |-> <<>>]

\* What is kept of a handler that has answered (resp) or, in a batch move,
\* has finished one fileId (outcome) without answering yet (resp "none").
Reply(q) ==
  [kind |-> q.kind, resp |-> q.resp, outcome |-> q.outcome,
   fileId |-> q.fileId, userId |-> q.userId,
   path |-> q.path, found |-> q.doc.found,
   status |-> q.doc.status, results |-> q.results, moved |-> q.moved,
   appended |-> q.appended, altered |-> q.altered, stale |-> q.stale,
   streamed |-> q.streamed, newLocation |-> q.newLocation,
   previousLocation |-> q.previousLocation, before |-> q.before, after |-> q.after,
   algorithm |-> q.algorithm, expectedHash |-> q.expectedHash]

NoReply == Reply(IdleReq)

\* Handler r goes on as q; when q has answered, the answer is sent and the
\* slot is free for the next request.
Continue(r, q) ==
  /\ req' = [req EXCEPT ![r] = IF q.pc = "done" THEN IdleReq ELSE [q EXCEPT !.outcome = "none"]]
  /\ last' = IF q.outcome # "none" THEN Reply(q) ELSE NoReply

\* Custody events the ledger holds or may still receive from the handlers in
\* flight; a request is accepted while this stays within MaxChain.
Longest ==
  LET lens == {Len(db[f].custodyChain) : f \in DOMAIN db}
                \cup {Len(custodyChain[f]) : f \in DOMAIN custodyChain} \cup {0}
  IN CHOOSE n \in lens : \A m \in lens : m <= n

RECURSIVE PendingUpTo(_)
PendingUpTo(n) ==
  IF n = 0 THEN 0
  ELSE PendingUpTo(n - 1)
       + (IF req[n].pc \in {"save2", "stream", "broken"} THEN 0 ELSE 1)
         * (IF req[n].kind = "batch" THEN Len(req[n].fileIds)
            ELSE IF req[n].kind \in {"move", "download", "access"} THEN 1 ELSE 0)
       + (IF req[n].kind = "batch" /\ req[n].pc = "save2" THEN Len(req[n].fileIds) - 1 ELSE 0)

Room(k) == Longest + PendingUpTo(MaxReq) + k <= MaxChain

\* Slot r takes the next request: the lowest slot that is not running.
Free(r) == req[r].pc = "idle" /\ \A r2 \in Requests : r2 < r => req[r2].pc # "idle"

existsSync(p) == p \in Paths /\ disk[p] # Absent

\* Variant: a read error of the stream resolves to an empty checksum.
calculateChecksum_resolve(readOk, filePath) ==
  IF readOk /\ existsSync(filePath) THEN sha256(disk[filePath]) ELSE ""

\* routes/upload.js calculateChecksum: the promise resolves to the hash of
\* the file's bytes, or rejects when the read stream fails.
calculateChecksum(readOk, filePath) ==
  IF readOk /\ existsSync(filePath) THEN sha256(disk[filePath]) ELSE Rejected

\* simple-server.js calculateFileHash: the same promise.
calculateFileHash(readOk, filePath) ==
  IF readOk /\ existsSync(filePath) THEN sha256(disk[filePath]) ELSE Rejected

\* The nodes of the IPFS simulator, and a node id no node has.
NodeIds == {"node-local", "node-us-east", "node-asia"}
NoNode == "node-none"

\* new IPFSSimulator(): every node without files, node-asia offline, and an
\* empty registry.
IPFSSimulator ==
  [nodes |-> [n \in NodeIds |->
                [status |-> IF n = "node-asia" THEN "offline" ELSE "online",
                 files |-> {}]],
   files |-> <<>>]

Init ==
  /\ server \in {"routes", "simple"}
  /\ db = <<>>
  /\ files = <<>>
  /\ custodyChain = <<>>
  /\ disk = [p \in Paths |-> Absent]
  /\ req = [r \in Requests |-> IdleReq]
  /\ nextName = 1
  /\ nextId = 1
  /\ clock = 0
  /\ custodyDb = <<>>
  /\ auditLog = <<>>
  /\ ipfs = IPFSSimulator
  /\ last = NoReply

Respond(q, outcome) == [q EXCEPT !.pc = "done", !.resp = outcome, !.outcome = outcome]

\* The answer to a request that fails the handler's validation of its input.
Reject(kind, outcome) == Respond([IdleReq EXCEPT !.kind = kind], outcome)

\* ------------------------------------------------- the Mongoose document
\* Variant: addCustodyEvent does not push the event.
addCustodyEvent_skip(doc, eventData) ==
  [doc EXCEPT !.currentLocation = IF eventData.location # "" THEN eventData.location ELSE @,
              !.updatedAt = clock]

\* chainOfCustodySchema.methods.addCustodyEvent up to its call of save(),
\* which stamps updatedAt of the modified document (timestamps: true).
addCustodyEvent(doc, eventData) ==
  [doc EXCEPT !.custodyChain = Append(@, eventData),
              !.currentLocation = IF eventData.location # "" THEN eventData.location ELSE @,
              !.updatedAt = clock]

\* document.isModified(): an element was pushed or a scalar path was assigned
\* a value other than the loaded one.
isModified(doc, orig, nsaved) ==
  \/ Len(doc.custodyChain) > nsaved
  \/ doc.currentLocation # orig.currentLocation
  \/ doc.filePath # orig.filePath

\* Variant: save() writes the whole array of the local document.
save_overwrite(stored, doc, orig, nsaved) ==
  [stored EXCEPT
     !.custodyChain = doc.custodyChain,
     !.currentLocation = IF doc.currentLocation # orig.currentLocation THEN doc.currentLocation ELSE @,
     !.filePath = IF doc.filePath # orig.filePath THEN doc.filePath ELSE @,
     !.updatedAt = IF isModified(doc, orig, nsaved) THEN doc.updatedAt ELSE @]

\* Variant: save() also stores the fingerprint of the bytes now at the
\* document's filePath.
save_rehash(stored, doc, orig, nsaved) ==
  [stored EXCEPT
     !.custodyChain = @ \o SubSeq(doc.custodyChain, nsaved + 1, Len(doc.custodyChain)),
     !.currentLocation = IF doc.currentLocation # orig.currentLocation THEN doc.currentLocation ELSE @,
     !.filePath = IF doc.filePath # orig.filePath THEN doc.filePath ELSE @,
     !.updatedAt = IF isModified(doc, orig, nsaved) THEN doc.updatedAt ELSE @,
     !.checksum = IF disk[doc.filePath] # Absent THEN sha256(disk[doc.filePath]) ELSE @]

\* Variant: save() writes every scalar path of the local document, modified
\* or not.
save_setAll(stored, doc, orig, nsaved) ==
  [stored EXCEPT
     !.custodyChain = @ \o SubSeq(doc.custodyChain, nsaved + 1, Len(doc.custodyChain)),
     !.currentLocation = doc.currentLocation,
     !.filePath = doc.filePath,
     !.updatedAt = IF isModified(doc, orig, nsaved) THEN doc.updatedAt ELSE @]

\* document.save() of a loaded document, as the database applies it in one
\* update: $push of the array elements pushed since the load, $set of the
\* scalar paths whose value differs from the loaded one (a path assigned its
\* old value is not modified and is not written).
save(stored, doc, orig, nsaved) ==
  [stored EXCEPT
     !.custodyChain = @ \o SubSeq(doc.custodyChain, nsaved + 1, Len(doc.custodyChain)),
     !.currentLocation = IF doc.currentLocation # orig.currentLocation THEN doc.currentLocation ELSE @,
     !.filePath = IF doc.filePath # orig.filePath THEN doc.filePath ELSE @,
     !.updatedAt = IF isModified(doc, orig, nsaved) THEN doc.updatedAt ELSE @]

\* The handler's bookkeeping once its save() has resolved.
Saved(q) ==
  [q EXCEPT !.orig = [currentLocation |-> q.doc.currentLocation, filePath |-> q.doc.filePath],
            !.nsaved = Len(q.doc.custodyChain),
            !.appended = @ + (Len(q.doc.custodyChain) - q.nsaved)]

\* ChainOfCustody.findByFileId: the document as stored now, or none.
findByFileId(fileId) ==
  IF fileId \in DOMAIN db THEN db[fileId] ELSE NoDoc

\* GET /upload/status/:fileId: the record as the server returns it when the
\* request is served, from the database or from the two Maps.
get(fileId) ==
  IF server = "routes"
  THEN LET record == findByFileId(fileId) IN
       [found |-> record.found, currentLocation |-> record.currentLocation,
        status |-> record.status, custodyChain |-> record.custodyChain]
  ELSE IF fileId \in DOMAIN files
  THEN [found |-> TRUE, currentLocation |-> files[fileId].currentLocation,
        status |-> files[fileId].status, custodyChain |-> custodyChain[fileId]]
  ELSE [found |-> FALSE, currentLocation |-> "", status |-> "", custodyChain |-> <<>>]

Loaded(q, fileId) ==
  LET d == findByFileId(fileId) IN
  [q EXCEPT !.fileId = fileId, !.doc = d,
            !.orig = [currentLocation |-> d.currentLocation, filePath |-> d.filePath],
            !.nsaved = Len(d.custodyChain),
            !.moved = FALSE, !.appended = 0, !.stale = FALSE,
            !.altered = d.found /\ existsSync(d.filePath)
                        /\ sha256(disk[d.filePath]) # d.checksum]

\* ------------------------------------------------ routes: POST /api/upload
\* Variant: the handler does not look at userId.
userIdGiven_any(userId) == TRUE

\* if (!userId): the request body names the user.
userIdGiven(userId) == userId # ""

UploadReceive(r, userId, hasFile, stored, content) ==
  /\ server = "routes"
  /\ Free(r)
  /\ LET q == [IdleReq EXCEPT !.kind = "upload", !.userId = userId, !.hasFile = hasFile] IN
     IF ~hasFile
     THEN /\ Continue(r, Reject("upload", "NoFile"))
          /\ UNCHANGED <<disk, nextName>>
     ELSE IF ~stored
     THEN /\ Continue(r, Reject("upload", "StorageWriteFailed"))
          /\ UNCHANGED <<disk, nextName>>
     ELSE /\ nextName <= MaxDocs
          /\ disk' = [disk EXCEPT ![<<"uploads", nextName>>] = content]
          /\ nextName' = nextName + 1
          /\ LET q1 == [q EXCEPT !.path = <<"uploads", nextName>>,
                                  !.file = File(nextName, content)] IN
             Continue(r,
                       IF ~userIdGiven(userId) THEN Respond(q1, "MissingActor")
                       ELSE [q1 EXCEPT !.pc = "hash"])
  /\ UNCHANGED <<server, ipfs, auditLog, clock, custodyDb, db, files, custodyChain, nextId>>

UploadHash(r, readOk) ==
  /\ server = "routes"
  /\ req[r].kind = "upload" /\ req[r].pc = "hash"
  /\ LET q == req[r]
         checksum == calculateChecksum(readOk, q.path) IN
     IF checksum = Rejected
     THEN /\ disk' = [disk EXCEPT ![q.path] = Absent]
          /\ Continue(r, Respond(q, "Failed"))
          /\ UNCHANGED nextId
     ELSE /\ nextId' = nextId + 1
          /\ Continue(r,
                [q EXCEPT !.pc = "save", !.fileId = nextId,
                          !.doc = [found |-> TRUE, fileId |-> nextId, filePath |-> q.path,
                                   checksum |-> checksum,
                                   originalFileName |-> q.file.originalname,
                                   fileSize |-> q.file.size, mimeType |-> q.file.mimetype,
                                   createdAt |-> clock, updatedAt |-> clock,
                                   currentLocation |-> "uploads", status |-> "active",
                                   custodyChain |-> <<CustodyEvent("upload", q.userId, "uploads")>>]])
          /\ UNCHANGED disk
  /\ UNCHANGED <<server, ipfs, auditLog, clock, custodyDb, db, files, custodyChain, nextName>>

UploadSave(r, ok) ==
  /\ server = "routes"
  /\ req[r].kind = "upload" /\ req[r].pc = "save"
  /\ LET q == req[r] IN
     IF ok /\ q.fileId \notin DOMAIN db
     THEN /\ db' = (q.fileId :> q.doc) @@ db
          /\ Continue(r, Respond(Saved([q EXCEPT !.nsaved = 0]), "ok"))
          /\ UNCHANGED disk
     ELSE /\ disk' = [disk EXCEPT ![q.path] = Absent]
          /\ Continue(r, Respond(q, "Failed"))
          /\ UNCHANGED db
  /\ UNCHANGED <<server, ipfs, auditLog, clock, custodyDb, files, custodyChain, nextName, nextId>>

\* ------------------------------- routes: POST /api/move, /api/move/batch
\* Variant: the handler does not look at status.
isActive_any(record) == TRUE

\* record.status !== 'active' is refused.
isActive(record) == record.status = "active"

\* The end of one fileId of a move: POST /move answers with the outcome,
\* POST /move/batch records it in results or errors and goes on to the next.
ItemDone(q, outcome) ==
  IF q.kind = "move" THEN Respond(q, outcome)
  ELSE LET res == Append(q.results, [fileId |-> q.fileId, outcome |-> outcome])
           rest == Tail(q.fileIds)
       IN IF rest = <<>>
          THEN [q EXCEPT !.results = res, !.fileIds = rest, !.outcome = outcome,
                         !.pc = "done", !.resp = "ok"]
          ELSE [q EXCEPT !.results = res, !.fileIds = rest, !.outcome = outcome,
                         !.pc = "find"]

MoveFound(q) ==
  IF ~q.doc.found THEN ItemDone(q, "NotFound") ELSE [q EXCEPT !.pc = "found"]

MoveRequest(r, fileId, userId, newLocation) ==
  /\ server = "routes"
  /\ Free(r)
  /\ Room(1)
  /\ LET q == [IdleReq EXCEPT !.kind = "move", !.fileId = fileId, !.fileIds = <<fileId>>,
                              !.userId = userId, !.newLocation = newLocation] IN
     Continue(r,
               IF fileId = NoId \/ userId = "" \/ newLocation = ""
               THEN Reject("move", "MissingField")
               ELSE MoveFound(Loaded(q, fileId)))
  /\ UNCHANGED <<server, ipfs, auditLog, clock, custodyDb, db, files, custodyChain, disk, nextName, nextId>>

BatchRequest(r, hasIds, fileIds, userId, newLocation) ==
  /\ server = "routes"
  /\ Free(r)
  /\ Room(Len(fileIds))
  /\ LET q == [IdleReq EXCEPT !.kind = "batch", !.fileIds = fileIds,
                              !.userId = userId, !.newLocation = newLocation] IN
     Continue(r,
               IF ~hasIds \/ userId = "" \/ newLocation = ""
               THEN Reject("batch", "MissingField")
               ELSE IF fileIds = <<>> THEN Respond(q, "ok")
               ELSE MoveFound(Loaded(q, Head(fileIds))))
  /\ UNCHANGED <<server, ipfs, auditLog, clock, custodyDb, db, files, custodyChain, disk, nextName, nextId>>

BatchFind(r) ==
  /\ server = "routes"
  /\ req[r].kind = "batch" /\ req[r].pc = "find"
  /\ Continue(r, MoveFound(Loaded(req[r], Head(req[r].fileIds))))
  /\ UNCHANGED <<server, ipfs, auditLog, clock, custodyDb, db, files, custodyChain, disk, nextName, nextId>>

newFilePath(q) == <<q.newLocation, q.doc.filePath[2]>>

\* fs.renameSync(oldPath, newPath)
renameSync(d, oldPath, newPath) ==
  [p \in Paths |-> IF p = newPath THEN d[oldPath]
                   ELSE IF p = oldPath THEN Absent ELSE d[p]]

\* From the status check to the call of record.addCustodyEvent: one tick.
MoveRename(r, renameOk) ==
  /\ server = "routes"
  /\ req[r].kind \in {"move", "batch"} /\ req[r].pc = "found"
  /\ LET q == [req[r] EXCEPT !.stale =
                   \/ db[req[r].fileId].currentLocation # req[r].doc.currentLocation
                   \/ db[req[r].fileId].filePath # req[r].doc.filePath] IN
     IF ~isActive(q.doc)
     THEN Continue(r, ItemDone(q, "InvalidState")) /\ UNCHANGED disk
     ELSE IF ~existsSync(q.doc.filePath)
     THEN Continue(r, ItemDone(q, "MissingBytes")) /\ UNCHANGED disk
     ELSE IF ~renameOk
     THEN Continue(r, ItemDone(q, "Failed")) /\ UNCHANGED disk
     ELSE /\ disk' = renameSync(disk, q.doc.filePath, newFilePath(q))
          /\ Continue(r,
                [q EXCEPT !.pc = "save1",
                          !.moved = (newFilePath(q) # q.doc.filePath),
                          !.doc = addCustodyEvent(q.doc,
                                    CustodyEvent("move", q.userId, q.newLocation))])
  /\ UNCHANGED <<server, ipfs, auditLog, clock, custodyDb, db, files, custodyChain, nextName, nextId>>

\* await record.addCustodyEvent(...) resolves or rejects; then
\* record.filePath = newFilePath and the second save() is called.
MoveSave1(r, ok) ==
  /\ server = "routes"
  /\ req[r].kind \in {"move", "batch"} /\ req[r].pc = "save1"
  /\ LET q == req[r] IN
     IF ok
     THEN /\ db' = [db EXCEPT ![q.fileId] = save(@, q.doc, q.orig, q.nsaved)]
          /\ Continue(r,
                [Saved(q) EXCEPT !.pc = "save2", !.doc.filePath = <<q.newLocation, q.doc.filePath[2]>>,
                                 !.doc.updatedAt = IF <<q.newLocation, q.doc.filePath[2]>> # q.doc.filePath
                                                   THEN clock ELSE @,
                                 !.before = IF q.kind = "move" THEN db[q.fileId].currentLocation ELSE @,
                                 !.after = IF q.kind = "move"
                                           THEN save(db[q.fileId], q.doc, q.orig, q.nsaved).currentLocation
                                           ELSE @])
     ELSE /\ Continue(r, ItemDone(q, "Failed"))
          /\ UNCHANGED db
  /\ UNCHANGED <<server, ipfs, auditLog, clock, custodyDb, files, custodyChain, disk, nextName, nextId>>

\* previousLocation of the answer of POST /move:
\* record.custodyChain[record.custodyChain.length - 2]?.location
previousLocation(record) ==
  IF Len(record.custodyChain) >= 2
  THEN record.custodyChain[Len(record.custodyChain) - 1].location
  ELSE ""

\* await record.save() resolves or rejects; then the response.
MoveSave2(r, ok) ==
  /\ server = "routes"
  /\ req[r].kind \in {"move", "batch"} /\ req[r].pc = "save2"
  /\ LET q == req[r] IN
     IF ok \/ q.doc.filePath = q.orig.filePath
     THEN /\ db' = [db EXCEPT ![q.fileId] = save(@, q.doc, q.orig, q.nsaved)]
          /\ Continue(r, ItemDone([Saved(q) EXCEPT !.previousLocation =
                                      IF q.kind = "move" THEN previousLocation(q.doc) ELSE @], "ok"))
     ELSE /\ Continue(r, ItemDone(q, "Failed"))
          /\ UNCHANGED db
  /\ UNCHANGED <<server, ipfs, auditLog, clock, custodyDb, files, custodyChain, disk, nextName, nextId>>

\* ------------------------------------- routes: GET /api/download/:fileId
DownloadRequest(r, fileId, userId) ==
  /\ server = "routes"
  /\ Free(r)
  /\ Room(1)
  /\ LET q == [IdleReq EXCEPT !.kind = "download", !.fileId = fileId, !.userId = userId]
         l == Loaded(q, fileId) IN
     Continue(r,
               IF userId = "" THEN Reject("download", "MissingField")
               ELSE IF ~l.doc.found THEN Respond(l, "NotFound")
               ELSE [l EXCEPT !.pc = "found"])
  /\ UNCHANGED <<server, ipfs, auditLog, clock, custodyDb, db, files, custodyChain, disk, nextName, nextId>>

\* The status check and fs.existsSync, then verifyFileIntegrity is called.
DownloadCheck(r) ==
  /\ server = "routes"
  /\ req[r].kind = "download" /\ req[r].pc = "found"
  /\ LET q == req[r] IN
     Continue(r,
               IF ~isActive(q.doc) THEN Respond(q, "InvalidState")
               ELSE IF ~existsSync(q.doc.filePath) THEN Respond(q, "MissingBytes")
               ELSE [q EXCEPT !.pc = "verify"])
  /\ UNCHANGED <<server, ipfs, auditLog, clock, custodyDb, db, files, custodyChain, disk, nextName, nextId>>

\* verifyFileIntegrity: true iff the bytes read hash to expectedChecksum;
\* it rejects when the stream fails.
verifyFileIntegrity(filePath, expectedChecksum) ==
  sha256(disk[filePath]) = expectedChecksum

DownloadVerify(r, readOk) ==
  /\ server = "routes"
  /\ req[r].kind = "download" /\ req[r].pc = "verify"
  /\ LET q == req[r] IN
     Continue(r,
               IF ~readOk \/ ~existsSync(q.doc.filePath) THEN Respond(q, "Failed")
               ELSE IF ~verifyFileIntegrity(q.doc.filePath, q.doc.checksum)
               THEN Respond(q, "IntegrityViolation")
               ELSE [q EXCEPT !.pc = "save",
                              !.doc = addCustodyEvent(q.doc,
                                        CustodyEvent("download", q.userId, q.doc.currentLocation))])
  /\ UNCHANGED <<server, ipfs, auditLog, clock, custodyDb, db, files, custodyChain, disk, nextName, nextId>>

DownloadSave(r, ok) ==
  /\ server = "routes"
  /\ req[r].kind = "download" /\ req[r].pc = "save"
  /\ LET q == req[r] IN
     IF ok
     THEN /\ db' = [db EXCEPT ![q.fileId] = save(@, q.doc, q.orig, q.nsaved)]
          /\ Continue(r, [Saved(q) EXCEPT !.pc = "stream"])
     ELSE /\ Continue(r, Respond(q, "Failed"))
          /\ UNCHANGED db
  /\ UNCHANGED <<server, ipfs, auditLog, clock, custodyDb, files, custodyChain, disk, nextName, nextId>>

\* fs.createReadStream(record.filePath).pipe(res): the bytes are piped to
\* the response, or the stream fails (the file is gone, a read error, the
\* client closes the connection).
DownloadStream(r, streamOk) ==
  /\ server = "routes"
  /\ req[r].kind = "download" /\ req[r].pc = "stream"
  /\ LET q == req[r] IN
     Continue(r,
               IF streamOk /\ existsSync(q.doc.filePath)
               THEN [Respond(q, "ok") EXCEPT !.streamed = disk[q.doc.filePath]]
               ELSE Respond(q, "StreamFailed"))
  /\ UNCHANGED <<server, ipfs, auditLog, clock, custodyDb, db, files, custodyChain, disk, nextName, nextId>>

\* fileStream.on('error') after bytes were piped: the headers are sent, so
\* the callback only logs; the response is neither ended nor destroyed and
\* the handler has nothing left to run.
StreamError(r) ==
  /\ server = "routes"
  /\ req[r].kind = "download" /\ req[r].pc = "stream"
  /\ existsSync(req[r].doc.filePath)
  /\ req' = [req EXCEPT ![r].pc = "broken"]
  /\ last' = NoReply
  /\ UNCHANGED <<server, ipfs, auditLog, clock, custodyDb, db, files, custodyChain, disk, nextName, nextId>>

\* ---------------------------------- routes: POST /api/download/access-log
\* Variant: the access log refuses a record that is not active or whose
\* file is missing.
AccessRequest_gated(r, fileId, userId) ==
  /\ server = "routes"
  /\ Free(r)
  /\ Room(1)
  /\ LET q == [IdleReq EXCEPT !.kind = "access", !.fileId = fileId, !.userId = userId]
         l == Loaded(q, fileId) IN
     Continue(r,
               IF fileId = NoId \/ userId = "" THEN Reject("access", "MissingField")
               ELSE IF ~l.doc.found THEN Respond(l, "NotFound")
               ELSE IF ~isActive(l.doc) THEN Respond(l, "InvalidState")
               ELSE IF ~existsSync(l.doc.filePath) THEN Respond(l, "MissingBytes")
               ELSE [l EXCEPT !.pc = "save",
                              !.doc = addCustodyEvent(l.doc,
                                        CustodyEvent("access", userId, l.doc.currentLocation))])
  /\ UNCHANGED <<server, ipfs, auditLog, clock, custodyDb, db, files, custodyChain, disk, nextName, nextId>>

AccessRequest(r, fileId, userId) ==
  /\ server = "routes"
  /\ Free(r)
  /\ Room(1)
  /\ LET q == [IdleReq EXCEPT !.kind = "access", !.fileId = fileId, !.userId = userId]
         l == Loaded(q, fileId) IN
     Continue(r,
               IF fileId = NoId \/ userId = "" THEN Reject("access", "MissingField")
               ELSE IF ~l.doc.found THEN Respond(l, "NotFound")
               ELSE [l EXCEPT !.pc = "save",
                              !.doc = addCustodyEvent(l.doc,
                                        CustodyEvent("access", userId, l.doc.currentLocation))])
  /\ UNCHANGED <<server, ipfs, auditLog, clock, custodyDb, db, files, custodyChain, disk, nextName, nextId>>

AccessSave(r, ok) ==
  /\ server = "routes"
  /\ req[r].kind = "access" /\ req[r].pc = "save"
  /\ LET q == req[r] IN
     IF ok
     THEN /\ db' = [db EXCEPT ![q.fileId] = save(@, q.doc, q.orig, q.nsaved)]
          /\ Continue(r, Respond(Saved(q), "ok"))
     ELSE /\ Continue(r, Respond(q, "Failed"))
          /\ UNCHANGED db
  /\ UNCHANGED <<server, ipfs, auditLog, clock, custodyDb, files, custodyChain, disk, nextName, nextId>>

\* ------------------------------------------------------- the environment
\* The stored bytes of a file are overwritten from outside the server.
Tamper(p) ==
  /\ disk[p] \notin {Absent, Tampered}
  /\ \/ \E f \in DOMAIN db : db[f].filePath[2] = p[2]
     \/ \E f \in DOMAIN files : files[f].filePath = p
  /\ disk' = [disk EXCEPT ![p] = Tampered]
  /\ last' = NoReply
  /\ UNCHANGED <<server, ipfs, auditLog, clock, custodyDb, db, files, custodyChain, req, nextName, nextId>>

\* Time passes.
Tick ==
  /\ clock < MaxClock
  /\ clock' = clock + 1
  /\ last' = NoReply
  /\ UNCHANGED <<server, ipfs, auditLog, custodyDb, db, files, custodyChain, disk, req, nextName, nextId>>

\* An administrator sets the status of a stored document (no route does).
AdminSetStatus(fileId, status) ==
  /\ server = "routes"
  /\ fileId \in DOMAIN db
  /\ db[fileId].status = "active" /\ status # "active"
  /\ db' = [db EXCEPT ![fileId].status = status]
  /\ last' = NoReply
  /\ UNCHANGED <<server, ipfs, auditLog, clock, custodyDb, files, custodyChain, disk, req, nextName, nextId>>

\* ------------------------------------------- simple: POST /api/upload
SimpleUploadReceive(r, userId, hasFile, stored, content) ==
  /\ server = "simple"
  /\ Free(r)
  /\ LET q == [IdleReq EXCEPT !.kind = "upload", !.userId = userId, !.hasFile = hasFile] IN
     IF ~hasFile
     THEN /\ Continue(r, Reject("upload", "NoFile"))
          /\ UNCHANGED <<disk, nextName>>
     ELSE IF ~stored
     THEN /\ Continue(r, Reject("upload", "StorageWriteFailed"))
          /\ UNCHANGED <<disk, nextName>>
     ELSE /\ nextName <= MaxUploads
          /\ disk' = [disk EXCEPT ![<<"uploads", nextName>>] = content]
          /\ nextName' = nextName + 1
          /\ LET q1 == [q EXCEPT !.path = <<"uploads", nextName>>,
                                  !.file = File(nextName, content)] IN
             Continue(r,
                       IF ~userIdGiven(userId) THEN Respond(q1, "MissingActor")
                       ELSE [q1 EXCEPT !.pc = "hash"])
  /\ UNCHANGED <<server, ipfs, auditLog, clock, custodyDb, db, files, custodyChain, nextId>>

\* await calculateFileHash resolves or rejects; then files.set and
\* custodyChain.set in the same tick.
SimpleUploadHash(r, readOk) ==
  /\ server = "simple"
  /\ req[r].kind = "upload" /\ req[r].pc = "hash"
  /\ LET q == req[r]
         checksum == calculateFileHash(readOk, q.path) IN
     IF checksum = Rejected
     THEN /\ Continue(r, Respond(q, "Failed"))
          /\ UNCHANGED <<files, custodyChain, nextId>>
     ELSE /\ nextId' = nextId + 1
          /\ files' = (nextId :> [fileId |-> nextId, filePath |-> q.path,
                                  checksum |-> checksum,
                                  originalFileName |-> q.file.originalname,
                                  fileSize |-> q.file.size, mimeType |-> q.file.mimetype,
                                  createdAt |-> clock, updatedAt |-> clock,
                                  currentLocation |-> "uploads", status |-> "active"]) @@ files
          /\ custodyChain' = (nextId :> <<CustodyEvent("upload", q.userId, "uploads")>>) @@ custodyChain
          /\ Continue(r, [Respond(q, "ok") EXCEPT !.fileId = nextId, !.appended = 1])
  /\ UNCHANGED <<server, ipfs, auditLog, clock, custodyDb, db, disk, nextName>>

\* ---------------------------------------------- simple: POST /api/move
SimpleMove(r, fileId, userId, newLocation) ==
  /\ server = "simple"
  /\ Free(r)
  /\ Room(1)
  /\ LET q == [IdleReq EXCEPT !.kind = "move", !.fileId = fileId, !.userId = userId,
                              !.newLocation = newLocation,
                              !.altered = fileId \in DOMAIN files
                                          /\ existsSync(files[fileId].filePath)
                                          /\ sha256(disk[files[fileId].filePath])
                                               # files[fileId].checksum] IN
     IF fileId = NoId \/ userId = "" \/ newLocation = ""
     THEN Continue(r, Reject("move", "MissingField"))
          /\ UNCHANGED <<files, custodyChain>>
     ELSE IF fileId \notin DOMAIN files
     THEN Continue(r, Respond(q, "NotFound"))
          /\ UNCHANGED <<files, custodyChain>>
     ELSE /\ files' = [files EXCEPT ![fileId].currentLocation = newLocation,
                                    ![fileId].updatedAt = clock]
          /\ custodyChain' = [custodyChain EXCEPT ![fileId] =
                                Append(@, CustodyEvent("move", userId, newLocation))]
          /\ Continue(r, [Respond(q, "ok") EXCEPT !.appended = 1,
                                                  !.previousLocation = files[fileId].currentLocation,
                                                  !.before = files[fileId].currentLocation,
                                                  !.after = newLocation])
  /\ UNCHANGED <<server, ipfs, auditLog, clock, custodyDb, db, disk, nextName, nextId>>

\* ------------------------------------- simple: GET /api/download/:fileId
SimpleDownload(r, fileId, userId) ==
  /\ server = "simple"
  /\ Free(r)
  /\ Room(1)
  /\ LET q == [IdleReq EXCEPT !.kind = "download", !.fileId = fileId, !.userId = userId,
                              !.altered = fileId \in DOMAIN files
                                          /\ existsSync(files[fileId].filePath)
                                          /\ sha256(disk[files[fileId].filePath])
                                               # files[fileId].checksum] IN
     IF userId = ""
     THEN Continue(r, Reject("download", "MissingField")) /\ UNCHANGED custodyChain
     ELSE IF fileId \notin DOMAIN files
     THEN Continue(r, Respond(q, "NotFound")) /\ UNCHANGED custodyChain
     ELSE IF ~existsSync(files[fileId].filePath)
     THEN Continue(r, Respond(q, "MissingBytes")) /\ UNCHANGED custodyChain
     ELSE /\ custodyChain' = [custodyChain EXCEPT ![fileId] =
                 Append(@, CustodyEvent("download", userId, files[fileId].currentLocation))]
          /\ Continue(r, [q EXCEPT !.pc = "stream", !.appended = 1,
                                                  !.path = files[fileId].filePath])
  /\ UNCHANGED <<server, ipfs, auditLog, clock, custodyDb, db, files, disk, nextName, nextId>>

\* fs.createReadStream(file.filePath).pipe(res)
SimpleStream(r, streamOk) ==
  /\ server = "simple"
  /\ req[r].kind = "download" /\ req[r].pc = "stream"
  /\ LET q == req[r] IN
     Continue(r,
               IF streamOk /\ existsSync(q.path)
               THEN [Respond(q, "ok") EXCEPT !.streamed = disk[q.path]]
               ELSE Respond(q, "StreamFailed"))
  /\ UNCHANGED <<server, ipfs, auditLog, clock, custodyDb, db, files, custodyChain, disk, nextName, nextId>>

\* simple: the read stream emits 'error' and no listener is registered;
\* no code of the handler answers the request.
SimpleStreamError(r) ==
  /\ server = "simple"
  /\ req[r].kind = "download" /\ req[r].pc = "stream"
  /\ req' = [req EXCEPT ![r].pc = "broken"]
  /\ last' = NoReply
  /\ UNCHANGED <<server, ipfs, auditLog, clock, custodyDb, db, files, custodyChain, disk, nextName, nextId>>

\* ------------------------------------- hash utility (HashGenerator class)
\* generateFileId: md5 of the resolved path, one id per path.
generateFileId(filePath) == <<"md5", filePath>>

supportedAlgorithms == {"md5", "sha1", "sha256", "sha512"}

\* crypto.createHash(algorithm).update(data).digest('hex'): lower-case hex,
\* one value per algorithm and content.
digest(content, algorithm) ==
  IF algorithm = "sha256" THEN sha256(content)
  ELSE CASE content = "c1" -> "m1"
         [] content = Tampered -> "mx"
         [] OTHER -> "m0"

\* Variant: the hex strings are compared as they are given.
toLowerCase_asGiven(hex) == hex

\* String.prototype.toLowerCase on a hex string.
toLowerCase(hex) ==
  CASE hex = "H1" -> "h1"
    [] hex = "HX" -> "hx"
    [] hex = "M1" -> "m1"
    [] OTHER -> hex

\* Error('Unsupported algorithm: ...'), thrown or rejected with.
UnsupportedAlgorithm == "unsupported"

\* Variant: an unsupported algorithm is hashed with sha256.
generateFileHash_default(filePath, algorithm, readOk) ==
  IF ~readOk \/ ~existsSync(filePath) THEN Rejected
  ELSE digest(disk[filePath], IF algorithm \in supportedAlgorithms THEN algorithm ELSE "sha256")

\* The promise of generateFileHash: it rejects for an unsupported algorithm
\* and for a stream error, and resolves to the hash otherwise.
generateFileHash(filePath, algorithm, readOk) ==
  IF algorithm \notin supportedAlgorithms THEN UnsupportedAlgorithm
  ELSE IF ~readOk \/ ~existsSync(filePath) THEN Rejected
  ELSE digest(disk[filePath], algorithm)

\* generateTextHash: it throws for an unsupported algorithm and returns the
\* hash of the text otherwise.
generateTextHash(content, algorithm) ==
  IF algorithm \notin supportedAlgorithms THEN UnsupportedAlgorithm
  ELSE digest(content, algorithm)

\* loadDatabase: the parsed file, or { files: {} } when it cannot be read.
loadDatabase(loadOk) == IF loadOk THEN custodyDb ELSE <<>>

\* addToCustodyChain up to its saveDatabase: the record of the path's fileId
\* is created when the loaded database has none, and the entry is pushed
\* onto its custodyChain.
addToCustodyChain(loaded, filePath, hash, action) ==
  LET fileId == generateFileId(filePath)
      base == IF fileId \in DOMAIN loaded THEN loaded
              ELSE (fileId :> [fileId |-> fileId, originalPath |-> filePath,
                               fileSize |-> size(disk[filePath]),
                               currentPath |-> NoPath,
                               custodyChain |-> <<>>, lastModified |-> 0]) @@ loaded
      custodyEntry == [action |-> action, hash |-> hash, location |-> filePath[1],
                       timestamp |-> clock]
  IN [base EXCEPT ![fileId].custodyChain = Append(@, custodyEntry),
                  ![fileId].lastModified = clock]

\* saveDatabase: writes the file, or logs the error and returns; onDisk is
\* the file before the call.
saveDatabase(onDisk, written, saveOk) == IF saveOk THEN written ELSE onDisk

\* Variant: an audit event is written for every call, whatever the file
\* system answers.
addAuditEntry_always(action, fileId, hash, auditOk) ==
  Append(auditLog, [action |-> action, fileId |-> fileId, hash |-> hash, timestamp |-> clock])

\* addAuditEntry: the event is appended to the log file, or the error is
\* logged and the log stays as it is.
addAuditEntry(action, fileId, hash, auditOk) ==
  IF auditOk
  THEN Append(auditLog, [action |-> action, fileId |-> fileId, hash |-> hash, timestamp |-> clock])
  ELSE auditLog

\* generateFileHash(filePath, algorithm, trackCustody): the command answers
\* with the hash; with trackCustody it records hash_generated first.
GenerateFileHash(filePath, algorithm, trackCustody, readOk, loadOk, saveOk, auditOk) ==
  /\ server = "hashgen"
  /\ LET fileId == generateFileId(filePath)
         hashValue == generateFileHash(filePath, algorithm, readOk)
         q == [IdleReq EXCEPT !.kind = IF trackCustody THEN "hash_generated" ELSE "hash",
                              !.path = filePath, !.algorithm = algorithm] IN
     IF hashValue = UnsupportedAlgorithm
     THEN /\ last' = Reply(Respond(q, "Unsupported"))
          /\ UNCHANGED <<custodyDb, auditLog>>
     ELSE IF hashValue = Rejected
     THEN /\ last' = Reply(Respond(q, "Failed"))
          /\ UNCHANGED <<custodyDb, auditLog>>
     ELSE IF ~trackCustody
     THEN /\ last' = Reply([Respond(q, "ok") EXCEPT !.streamed = hashValue])
          /\ UNCHANGED <<custodyDb, auditLog>>
     ELSE /\ fileId \in DOMAIN custodyDb => Len(custodyDb[fileId].custodyChain) < MaxEntries
          /\ Len(auditLog) < MaxAudit
          /\ custodyDb' = saveDatabase(custodyDb,
                                       addToCustodyChain(loadDatabase(loadOk), filePath,
                                                         hashValue, "hash_generated"),
                                       saveOk)
          /\ auditLog' = addAuditEntry("hash_generated", fileId, hashValue, auditOk)
          /\ last' = Reply([Respond(q, "ok") EXCEPT !.streamed = hashValue,
                                                     !.appended = IF saveOk THEN 1 ELSE 0])
  /\ UNCHANGED <<server, ipfs, clock, db, files, custodyChain, disk, req, nextName, nextId>>

\* trackFileMovement(filePath, newPath) as the move command runs it: the
\* database is loaded, the file is hashed, addToCustodyChain loads, extends
\* and saves the database on its own, and then the database loaded first
\* is saved with currentPath set.  It answers true, or false after an error.
TrackFileMovement(filePath, newPath, readOk, loadOk, saveOk, auditOk) ==
  /\ server = "hashgen"
  /\ LET fileId == generateFileId(filePath)
         loaded == loadDatabase(loadOk[1])
         currentHash == generateFileHash(filePath, "sha256", readOk)
         q == [IdleReq EXCEPT !.kind = "moved", !.path = filePath, !.newLocation = newPath,
                              !.altered = /\ fileId \in DOMAIN custodyDb
                                          /\ currentHash # Rejected
                                          /\ custodyDb[fileId].custodyChain[
                                                Len(custodyDb[fileId].custodyChain)].hash # currentHash] IN
     IF fileId \notin DOMAIN loaded
     THEN /\ last' = Reply(Respond(q, "NotFound"))
          /\ UNCHANGED <<custodyDb, auditLog>>
     ELSE IF currentHash = Rejected
     THEN /\ last' = Reply(Respond(q, "Failed"))
          /\ UNCHANGED <<custodyDb, auditLog>>
     ELSE /\ Len(custodyDb[fileId].custodyChain) < MaxEntries
          /\ Len(auditLog) < MaxAudit
          /\ LET first == saveDatabase(custodyDb,
                                       addToCustodyChain(loadDatabase(loadOk[2]), filePath,
                                                         currentHash, "moved"),
                                       saveOk[1])
                 second == saveDatabase(first, [loaded EXCEPT ![fileId].currentPath = newPath],
                                        saveOk[2]) IN
             /\ custodyDb' = second
             /\ auditLog' = addAuditEntry("moved", fileId, currentHash, auditOk)
             /\ last' = Reply([Respond(q, "ok") EXCEPT
                                !.streamed = currentHash,
                                !.appended = IF fileId \in DOMAIN second
                                             THEN Len(second[fileId].custodyChain)
                                                    - Len(custodyDb[fileId].custodyChain)
                                             ELSE 0])
  /\ UNCHANGED <<server, ipfs, clock, db, files, custodyChain, disk, req, nextName, nextId>>

\* HashGenerator.verifyFileIntegrity as the verify command reports it: the
\* hashes match, or the integrity check failed.  A rejection of
\* generateFileHash is caught and answered with false.
VerifyFileIntegrity(filePath, expectedHash, algorithm, readOk) ==
  /\ server = "hashgen"
  /\ LET actualHash == generateFileHash(filePath, algorithm, readOk)
         isValid == actualHash \notin {Rejected, UnsupportedAlgorithm}
                    /\ toLowerCase(actualHash) = toLowerCase(expectedHash)
         q == [IdleReq EXCEPT !.kind = "verify", !.path = filePath,
                              !.algorithm = algorithm, !.expectedHash = expectedHash,
                              !.streamed = IF actualHash \in {Rejected, UnsupportedAlgorithm}
                                           THEN "none" ELSE actualHash] IN
     last' = Reply(Respond(q, IF isValid THEN "ok" ELSE "IntegrityViolation"))
  /\ UNCHANGED <<server, ipfs, auditLog, clock, custodyDb, db, files, custodyChain, disk, req, nextName, nextId>>

\* The text command: generateTextHash of the text given, whose hash is
\* printed, or whose error ends the command.
GenerateTextHash(content, algorithm) ==
  /\ server = "hashgen"
  /\ LET hashValue == generateTextHash(content, algorithm)
         q == [IdleReq EXCEPT !.kind = "text_hash", !.algorithm = algorithm] IN
     last' = Reply(IF hashValue = UnsupportedAlgorithm
                   THEN Respond(q, "Unsupported")
                   ELSE [Respond(q, "ok") EXCEPT !.streamed = hashValue])
  /\ UNCHANGED <<server, ipfs, auditLog, clock, custodyDb, db, files, custodyChain, disk, req, nextName, nextId>>

\* A file is created at a path, or the file there is replaced by another.
WriteFile(filePath, content) ==
  /\ server = "hashgen"
  /\ disk[filePath] # content
  /\ disk' = [disk EXCEPT ![filePath] = content]
  /\ last' = NoReply
  /\ UNCHANGED <<server, ipfs, auditLog, clock, custodyDb, db, files, custodyChain, req, nextName, nextId>>

\* --------------------------------------------------------- specification
\* A request without a file stores nothing and a file that is not stored
\* reaches no handler code, so the fields behind them are not enumerated.
Inputs == Users \cup {""}

NextUpload ==
  \/ \E r \in Requests, h \in BOOLEAN :
       \E s \in (IF h THEN BOOLEAN ELSE {FALSE}), c \in Contents :
         \E u \in (IF s THEN Inputs ELSE {""}) : UploadReceive(r, u, h, s, c)
  \/ \E r \in Requests, ok \in BOOLEAN : UploadHash(r, ok)
  \/ \E r \in Requests, ok \in BOOLEAN : UploadSave(r, ok)

NextMoveSteps ==
  \/ \E r \in Requests, ok \in BOOLEAN : MoveRename(r, ok)
  \/ \E r \in Requests, ok \in BOOLEAN : MoveSave1(r, ok)
  \/ \E r \in Requests, ok \in BOOLEAN : MoveSave2(r, ok)

NextMove ==
  \E r \in Requests, f \in DocIds \cup {NoId}, u \in Inputs, l \in Locations \cup {""} :
    MoveRequest(r, f, u, l)

NextBatchMove ==
  \/ \E r \in Requests, h \in BOOLEAN, u \in Inputs, l \in Locations \cup {""} :
       \E fs \in (IF h THEN BatchLists ELSE {<<>>}) : BatchRequest(r, h, fs, u, l)
  \/ \E r \in Requests : BatchFind(r)

NextRetrieve ==
  \/ \E r \in Requests, f \in DocIds, u \in Inputs : DownloadRequest(r, f, u)
  \/ \E r \in Requests : DownloadCheck(r)
  \/ \E r \in Requests, ok \in BOOLEAN : DownloadVerify(r, ok)
  \/ \E r \in Requests, ok \in BOOLEAN : DownloadSave(r, ok)
  \/ \E r \in Requests, ok \in BOOLEAN : DownloadStream(r, ok)
  \/ \E r \in Requests, f \in DocIds \cup {NoId}, u \in Inputs : AccessRequest(r, f, u)
  \/ \E r \in Requests, ok \in BOOLEAN : AccessSave(r, ok)

NextEnv ==
  \/ \E f \in DocIds, s \in Statuses : AdminSetStatus(f, s)
  \/ \E p \in Paths : server = "routes" /\ Tamper(p)

\* The routes server with single-file requests.
NextRoutes == NextUpload \/ NextMove \/ NextMoveSteps \/ NextRetrieve \/ NextEnv

\* The routes server with uploads and batch moves.
NextBatch == NextUpload \/ NextBatchMove \/ NextMoveSteps \/ NextEnv

NextSimpleUpload ==
  \/ \E r \in Requests, h \in BOOLEAN :
       \E s \in (IF h THEN BOOLEAN ELSE {FALSE}), c \in Contents :
         \E u \in (IF s THEN Inputs ELSE {""}) : SimpleUploadReceive(r, u, h, s, c)
  \/ \E r \in Requests, ok \in BOOLEAN : SimpleUploadHash(r, ok)

NextSimple ==
  \/ NextSimpleUpload
  \/ \E r \in Requests, f \in FileIds \cup {NoId}, u \in Inputs, l \in Locations \cup {""} :
       SimpleMove(r, f, u, l)
  \/ \E r \in Requests, f \in FileIds, u \in Inputs : SimpleDownload(r, f, u)
  \/ \E r \in Requests, ok \in BOOLEAN : SimpleStream(r, ok)
  \/ \E p \in Paths : server = "simple" /\ Tamper(p)

Next == NextRoutes \/ NextBatchMove \/ NextSimple

Spec == Init /\ [][Next]_vars

InitRoutes == Init /\ server = "routes"

SpecRoutes == InitRoutes /\ [][NextRoutes]_vars

SpecBatch == InitRoutes /\ [][NextBatch]_vars

InitSimple == Init /\ server = "simple"

SpecSimple == InitSimple /\ [][NextSimple]_vars

\* Both servers with uploads only, and what happens to the stored files and
\* documents outside the servers.
NextIngest ==
  \/ NextUpload
  \/ NextSimpleUpload
  \/ NextEnv
  \/ \E p \in Paths : server = "simple" /\ Tamper(p)

SpecIngest == Init /\ [][NextIngest]_vars

\* Both servers with single-file requests while time passes.  In the other
\* specifications the clock stands still: they are about the order of the
\* steps, not about their times.
NextClock ==
  \/ NextUpload
  \/ NextMove
  \/ NextMoveSteps
  \/ NextRetrieve
  \/ NextSimple
  \/ Tick

SpecClock == Init /\ [][NextClock]_vars

\* The hash utility run from the command line, one command at a time, on
\* files that are created and replaced between the commands.
InitHashGen ==
  /\ server = "hashgen"
  /\ db = <<>>
  /\ files = <<>>
  /\ custodyChain = <<>>
  /\ disk = [p \in Paths |-> Absent]
  /\ req = [r \in Requests |-> IdleReq]
  /\ nextName = 1
  /\ nextId = 1
  /\ clock = 0
  /\ custodyDb = <<>>
  /\ auditLog = <<>>
  /\ ipfs = IPFSSimulator
  /\ last = NoReply

NextHashGen ==
  \/ \E p \in HashPaths, t, ok \in BOOLEAN :
       \E a \in (IF t THEN TrackAlgorithms ELSE Algorithms),
          l, s, au \in (IF t /\ ok THEN BOOLEAN ELSE {TRUE}) :
         GenerateFileHash(p, a, t, ok, l, s, au)
  \/ \E p \in HashPaths, n \in NewPaths, ok, au \in BOOLEAN, l, s \in [1..2 -> BOOLEAN] :
       TrackFileMovement(p, n, ok, l, s, au)
  \/ \E p \in HashPaths, e \in ExpectedHashes, a \in Algorithms, ok \in BOOLEAN :
       VerifyFileIntegrity(p, e, a, ok)
  \/ \E c \in Contents, a \in Algorithms : GenerateTextHash(c, a)
  \/ \E p \in HashPaths, c \in Contents \cup {Tampered} : WriteFile(p, c)

SpecHashGen == InitHashGen /\ [][NextHashGen]_vars

\* ------------------------------------------- hash utility: manifests
\* The paths a manifest names, in the order of its keys.
ManifestPaths == <<<<"uploads", 1>>, <<"uploads", 2>>>>

\* An entry of manifest.files: a hash, or the message of the error that
\* generateManifest met (error "" stands for an entry without error).
FileInfos ==
  {[hash |-> h, error |-> ""] : h \in {"h1", "H1", "hx"}}
    \cup {[hash |-> "", error |-> "failed"]}

\* The manifests handed to verifyManifest: any subset of the paths, each
\* with an entry.
Manifests ==
  {[algorithm |-> a, files |-> f] :
     a \in Algorithms,
     f \in UNION {[S -> FileInfos] : S \in SUBSET {ManifestPaths[i] : i \in 1..Len(ManifestPaths)}}}

NoManifestReply ==
  [kind |-> "idle", resp |-> "none", algorithm |-> "", manifest |-> <<>>,
   totalFiles |-> 0, verified |-> 0, failed |-> 0, missing |-> 0, details |-> <<>>]

\* generateManifest: for every path its hash, or the error of statSync or
\* of generateFileHash.
generateManifest(filePaths, algorithm, readOk) ==
  [algorithm |-> algorithm,
   files |-> [filePath \in filePaths |->
                LET hash == IF existsSync(filePath)
                            THEN generateFileHash(filePath, algorithm, readOk[filePath])
                            ELSE Rejected IN
                IF hash \in {Rejected, UnsupportedAlgorithm}
                THEN [hash |-> "", error |-> "failed"]
                ELSE [hash |-> hash, error |-> ""]]]

\* verifyFileIntegrity: the hashes compared without their case; false when
\* generateFileHash rejects.
verifyFileIntegrity_hash(filePath, expectedHash, algorithm, readOk) ==
  LET actualHash == generateFileHash(filePath, algorithm, readOk) IN
  /\ actualHash \notin {Rejected, UnsupportedAlgorithm}
  /\ toLowerCase(actualHash) = toLowerCase(expectedHash)

\* Variant: a missing file is counted missing and then checked like a file
\* that exists.
verifyEntry_fallthrough(results, filePath, fileInfo, algorithm, readOk) ==
  IF fileInfo.error # ""
  THEN [results EXCEPT !.details = (filePath :> "error") @@ @, !.failed = @ + 1]
  ELSE LET counted == IF ~existsSync(filePath)
                      THEN [results EXCEPT !.missing = @ + 1] ELSE results IN
       IF verifyFileIntegrity_hash(filePath, fileInfo.hash, algorithm, readOk)
       THEN [counted EXCEPT !.details = (filePath :> "verified") @@ @, !.verified = @ + 1]
       ELSE [counted EXCEPT !.details = (filePath :> "failed") @@ @, !.failed = @ + 1]

\* One turn of the loop of verifyManifest: the entry is counted as failed
\* (an entry with an error, a hash that differs, an error while hashing),
\* missing or verified.
verifyEntry(results, filePath, fileInfo, algorithm, readOk) ==
  IF fileInfo.error # ""
  THEN [results EXCEPT !.details = (filePath :> "error") @@ @, !.failed = @ + 1]
  ELSE IF ~existsSync(filePath)
  THEN [results EXCEPT !.details = (filePath :> "missing") @@ @, !.missing = @ + 1]
  ELSE IF verifyFileIntegrity_hash(filePath, fileInfo.hash, algorithm, readOk)
  THEN [results EXCEPT !.details = (filePath :> "verified") @@ @, !.verified = @ + 1]
  ELSE IF generateFileHash(filePath, algorithm, readOk) \in {Rejected, UnsupportedAlgorithm}
  THEN [results EXCEPT !.details = (filePath :> "error") @@ @, !.failed = @ + 1]
  ELSE [results EXCEPT !.details = (filePath :> "failed") @@ @, !.failed = @ + 1]

\* for (const [filePath, fileInfo] of Object.entries(manifest.files)), from
\* the i-th key on.
RECURSIVE verifyEntries(_, _, _, _)
verifyEntries(results, manifest, i, readOk) ==
  IF i > Len(ManifestPaths) THEN results
  ELSE LET filePath == ManifestPaths[i] IN
       verifyEntries(IF filePath \in DOMAIN manifest.files
                     THEN verifyEntry(results, filePath, manifest.files[filePath],
                                      manifest.algorithm, readOk[filePath])
                     ELSE results,
                     manifest, i + 1, readOk)

\* The manifest command.
GenerateManifest(filePaths, algorithm, readOk) ==
  /\ server = "hashgen"
  /\ last' = [NoManifestReply EXCEPT !.kind = "generateManifest", !.resp = "ok",
                                     !.algorithm = algorithm,
                                     !.manifest = generateManifest(filePaths, algorithm, readOk)]
  /\ UNCHANGED <<server, ipfs, auditLog, clock, custodyDb, db, files, custodyChain, disk, req, nextName, nextId>>

\* verifyManifest(manifest): the counts and the status of every entry.
VerifyManifest(manifest, readOk) ==
  /\ server = "hashgen"
  /\ LET results == verifyEntries([NoManifestReply EXCEPT
                                     !.kind = "verifyManifest", !.resp = "ok",
                                     !.algorithm = manifest.algorithm,
                                     !.manifest = manifest,
                                     !.totalFiles = Cardinality(DOMAIN manifest.files)],
                                   manifest, 1, readOk) IN
     last' = results
  /\ UNCHANGED <<server, ipfs, auditLog, clock, custodyDb, db, files, custodyChain, disk, req, nextName, nextId>>

ReadOutcomes == [{ManifestPaths[i] : i \in 1..Len(ManifestPaths)} -> BOOLEAN]

NextManifest ==
  \/ \E S \in SUBSET {ManifestPaths[i] : i \in 1..Len(ManifestPaths)}, a \in Algorithms,
        ok \in ReadOutcomes : GenerateManifest(S, a, ok)
  \/ \E m \in Manifests, ok \in ReadOutcomes : VerifyManifest(m, ok)
  \/ \E i \in 1..Len(ManifestPaths), c \in Contents \cup {Tampered} :
       WriteFile(ManifestPaths[i], c)

\* Manifests generated and verified over files that come and change.
SpecManifest == InitHashGen /\ [][NextManifest]_vars

\* ---------------- hash utility: invocations running as separate processes
\* Each slot of req is one process of the utility; hash, db and auditLog
\* of the slot are the process's local values.  A step is what a process
\* does between two accesses to audit-log.json; the read and the write of
\* custody-database.json inside addToCustodyChain are taken as one step,
\* and every read and write succeeds.

\* The track command: the file is hashed and addToCustodyChain has saved
\* the database; addAuditEntry is about to read the log.
TrackBegin(r, filePath) ==
  /\ server = "hashgen"
  /\ Free(r)
  /\ LET fileId == generateFileId(filePath)
         hashValue == generateFileHash(filePath, "sha256", TRUE)
         q == [IdleReq EXCEPT !.kind = "hash_generated", !.path = filePath,
                              !.algorithm = "sha256"] IN
     IF hashValue = Rejected
     THEN /\ last' = Reply(Respond(q, "Failed"))
          /\ UNCHANGED <<custodyDb, req>>
     ELSE /\ fileId \in DOMAIN custodyDb => Len(custodyDb[fileId].custodyChain) < MaxEntries
          /\ Len(auditLog) < MaxAudit
          /\ custodyDb' = addToCustodyChain(loadDatabase(TRUE), filePath, hashValue,
                                            "hash_generated")
          /\ req' = [req EXCEPT ![r] = [q EXCEPT !.pc = "audit", !.hash = hashValue]]
          /\ last' = NoReply
  /\ UNCHANGED <<server, ipfs, auditLog, clock, db, files, custodyChain, disk, nextName, nextId>>

\* The move command up to the same point: trackFileMovement has loaded
\* the database into db, hashed the file, and addToCustodyChain has saved
\* the 'moved' entry.
MoveBegin(r, filePath, newPath) ==
  /\ server = "hashgen"
  /\ Free(r)
  /\ LET fileId == generateFileId(filePath)
         loaded == loadDatabase(TRUE)
         currentHash == generateFileHash(filePath, "sha256", TRUE)
         q == [IdleReq EXCEPT !.kind = "moved", !.path = filePath, !.newLocation = newPath] IN
     IF fileId \notin DOMAIN loaded
     THEN /\ last' = Reply(Respond(q, "NotFound"))
          /\ UNCHANGED <<custodyDb, req>>
     ELSE IF currentHash = Rejected
     THEN /\ last' = Reply(Respond(q, "Failed"))
          /\ UNCHANGED <<custodyDb, req>>
     ELSE /\ Len(custodyDb[fileId].custodyChain) < MaxEntries
          /\ Len(auditLog) < MaxAudit
          /\ custodyDb' = addToCustodyChain(loadDatabase(TRUE), filePath, currentHash, "moved")
          /\ req' = [req EXCEPT ![r] = [q EXCEPT !.pc = "audit", !.hash = currentHash,
                                                 !.db = loaded]]
          /\ last' = NoReply
  /\ UNCHANGED <<server, ipfs, auditLog, clock, db, files, custodyChain, disk, nextName, nextId>>

\* addAuditEntry: const auditLog = JSON.parse(fs.readFileSync(AUDIT_LOG_PATH))
AuditRead(r) ==
  /\ server = "hashgen"
  /\ req[r].pc = "audit"
  /\ req' = [req EXCEPT ![r].auditLog = auditLog, ![r].pc = "write"]
  /\ last' = NoReply
  /\ UNCHANGED <<server, ipfs, auditLog, clock, custodyDb, db, files, custodyChain, disk, nextName, nextId>>

\* addAuditEntry: auditLog.events.push(entry) and fs.writeFileSync of the
\* log read before; the track command then answers with the hash.
AuditWrite(r) ==
  /\ server = "hashgen"
  /\ req[r].pc = "write"
  /\ LET q == req[r] IN
     /\ auditLog' = Append(q.auditLog,
                           [action |-> q.kind, fileId |-> generateFileId(q.path),
                            hash |-> q.hash, timestamp |-> clock])
     /\ IF q.kind = "moved"
        THEN req' = [req EXCEPT ![r].pc = "path"] /\ last' = NoReply
        ELSE /\ req' = [req EXCEPT ![r] = IdleReq]
             /\ last' = Reply([Respond(q, "ok") EXCEPT !.streamed = q.hash])
  /\ UNCHANGED <<server, ipfs, clock, custodyDb, db, files, custodyChain, disk, nextName, nextId>>

\* trackFileMovement: db.files[fileId].currentPath = newPath and
\* saveDatabase(db) with the database loaded at the start; it answers true.
MovePath(r) ==
  /\ server = "hashgen"
  /\ req[r].pc = "path"
  /\ LET q == req[r] IN
     /\ custodyDb' = [q.db EXCEPT ![generateFileId(q.path)].currentPath = q.newLocation]
     /\ req' = [req EXCEPT ![r] = IdleReq]
     /\ last' = Reply([Respond(q, "ok") EXCEPT !.streamed = q.hash])
  /\ UNCHANGED <<server, ipfs, auditLog, clock, db, files, custodyChain, disk, nextName, nextId>>

NextAudit ==
  \/ \E r \in Requests, p \in HashPaths : TrackBegin(r, p)
  \/ \E r \in Requests, p \in HashPaths, n \in NewPaths : MoveBegin(r, p, n)
  \/ \E r \in Requests : AuditRead(r)
  \/ \E r \in Requests : AuditWrite(r)
  \/ \E r \in Requests : MovePath(r)
  \/ \E p \in HashPaths, c \in Contents \cup {Tampered} : WriteFile(p, c)

\* Track and move commands of the hash utility run by concurrent processes.
SpecAudit == InitHashGen /\ [][NextAudit]_vars

\* Uploads and downloads of both servers with the errors of the download
\* stream.
NextDownload ==
  \/ NextUpload
  \/ NextRetrieve
  \/ \E r \in Requests : StreamError(r)
  \/ NextSimpleUpload
  \/ \E r \in Requests, f \in FileIds, u \in Inputs : SimpleDownload(r, f, u)
  \/ \E r \in Requests, ok \in BOOLEAN : SimpleStream(r, ok)
  \/ \E r \in Requests : SimpleStreamError(r)

\* What the event loop runs for the request in slot r once its pending
\* promise or stream has settled.
Settle(r) ==
  \/ \E ok \in BOOLEAN : UploadHash(r, ok)
  \/ \E ok \in BOOLEAN : UploadSave(r, ok)
  \/ DownloadCheck(r)
  \/ \E ok \in BOOLEAN : DownloadVerify(r, ok)
  \/ \E ok \in BOOLEAN : DownloadSave(r, ok)
  \/ \E ok \in BOOLEAN : DownloadStream(r, ok)
  \/ StreamError(r)
  \/ \E ok \in BOOLEAN : AccessSave(r, ok)
  \/ \E ok \in BOOLEAN : SimpleUploadHash(r, ok)
  \/ \E ok \in BOOLEAN : SimpleStream(r, ok)
  \/ SimpleStreamError(r)

\* Every pending promise and stream settles and its continuation runs.
SpecDownload ==
  Init /\ [][NextDownload]_vars /\ \A r \in Requests : WF_vars(Settle(r))

\* ------------------------------------------------------ IPFS simulator
MaxPins == 3                      \* the longest pinnedTo

\* generateIPFSHash: 'Qm' and the start of the SHA-256 of the content.
generateIPFSHash(content) == <<"Qm", sha256(content)>>

\* Values of the pinToNodes field of POST /add.
PinLists ==
  {<<>>, <<"node-local">>, <<"node-us-east">>, <<"node-asia">>,
   <<"node-local", "node-us-east">>, <<"node-local", "node-local">>}

InitIpfs ==
  /\ server = "ipfs"
  /\ db = <<>>
  /\ files = <<>>
  /\ custodyChain = <<>>
  /\ disk = [p \in Paths |-> Absent]
  /\ req = [r \in Requests |-> IdleReq]
  /\ nextName = 1
  /\ nextId = 1
  /\ clock = 0
  /\ custodyDb = <<>>
  /\ auditLog = <<>>
  /\ ipfs = IPFSSimulator
  /\ last = NoReply

\* Pushes onto pinnedTo of ipfsHash that the calls in flight will still
\* make, counted from request r on.
RECURSIVE PendingPins(_, _)
PendingPins(ipfsHash, r) ==
  IF r > MaxReq THEN 0
  ELSE (IF req[r].pc = "delay" /\ req[r].hash = ipfsHash
        THEN 1 + Len(req[r].pinToNodes) ELSE 0)
       + PendingPins(ipfsHash, r + 1)

\* pinFileToNode up to its await: it throws unless the node and the file
\* exist and the node is online, else it waits for node.latency.
\* q.pinToNodes holds the nodes addFile pins to afterwards.
pinFileToNode(registry, r, q, nodeId) ==
  IF nodeId \notin NodeIds \/ q.hash \notin DOMAIN registry
  THEN req' = [req EXCEPT ![r] = IdleReq] /\ last' = Reply(Respond(q, "NotFound"))
  ELSE IF ipfs.nodes[nodeId].status # "online"
  THEN req' = [req EXCEPT ![r] = IdleReq] /\ last' = Reply(Respond(q, "Offline"))
  ELSE req' = [req EXCEPT ![r] = [q EXCEPT !.pc = "delay", !.nodeId = nodeId]]
       /\ last' = NoReply

\* addFile: the file object replaces the registry's entry for its hash with
\* pinnedTo [] and replicationFactor 0, then the file is pinned to the
\* nodes of pinToNodes one after the other.
AddFile(r, content, pinToNodes) ==
  /\ server = "ipfs"
  /\ Free(r)
  /\ LET ipfsHash == generateIPFSHash(content)
         fileObject == [hash |-> ipfsHash, content |-> content,
                        pinnedTo |-> <<>>, replicationFactor |-> 0]
         registry == (ipfsHash :> fileObject) @@ ipfs.files
         q == [IdleReq EXCEPT !.kind = "addFile", !.hash = ipfsHash] IN
     /\ PendingPins(ipfsHash, 1) + Len(pinToNodes) <= MaxPins
     /\ ipfs' = [ipfs EXCEPT !.files = registry]
     /\ IF pinToNodes = <<>>
        THEN req' = req /\ last' = Reply(Respond(q, "ok"))
        ELSE pinFileToNode(registry, r, [q EXCEPT !.pinToNodes = Tail(pinToNodes)],
                           Head(pinToNodes))
  /\ UNCHANGED <<server, auditLog, clock, custodyDb, db, files, custodyChain, disk, nextName, nextId>>

\* POST /pin/:hash: 400 without nodeId, else pinFileToNode.
PinFile(r, ipfsHash, nodeId) ==
  /\ server = "ipfs"
  /\ Free(r)
  /\ LET q == [IdleReq EXCEPT !.kind = "pin", !.hash = ipfsHash] IN
     IF nodeId = ""
     THEN req' = req /\ last' = Reply(Respond(q, "MissingField"))
     ELSE /\ ipfsHash \in DOMAIN ipfs.files
               => Len(ipfs.files[ipfsHash].pinnedTo) + PendingPins(ipfsHash, 1) < MaxPins
          /\ pinFileToNode(ipfs.files, r, q, nodeId)
  /\ UNCHANGED <<server, ipfs, auditLog, clock, custodyDb, db, files, custodyChain, disk, nextName, nextId>>

\* pinFileToNode after the delay: the hash joins the node's files, the node
\* id is pushed onto pinnedTo and replicationFactor becomes its length;
\* addFile then goes on with its next node.
PinDone(r) ==
  /\ server = "ipfs"
  /\ req[r].pc = "delay"
  /\ LET q == req[r]
         globalFile == ipfs.files[q.hash]
         pinnedTo == Append(globalFile.pinnedTo, q.nodeId)
         registry == [ipfs.files EXCEPT ![q.hash].pinnedTo = pinnedTo,
                                        ![q.hash].replicationFactor = Len(pinnedTo)] IN
     /\ ipfs' = [ipfs EXCEPT !.nodes[q.nodeId].files = @ \cup {q.hash},
                             !.files = registry]
     /\ IF q.pinToNodes = <<>>
        THEN req' = [req EXCEPT ![r] = IdleReq] /\ last' = Reply(Respond(q, "ok"))
        ELSE pinFileToNode(registry, r, [q EXCEPT !.pinToNodes = Tail(q.pinToNodes)],
                           Head(q.pinToNodes))
  /\ UNCHANGED <<server, auditLog, clock, custodyDb, db, files, custodyChain, disk, nextName, nextId>>

\* DELETE /pin/:hash: 400 without nodeId, else unpinFileFromNode: the hash
\* leaves the node's files and the node id leaves pinnedTo.
UnpinFile(ipfsHash, nodeId) ==
  /\ server = "ipfs"
  /\ LET q == [IdleReq EXCEPT !.kind = "unpin", !.hash = ipfsHash, !.nodeId = nodeId] IN
     IF nodeId = ""
     THEN ipfs' = ipfs /\ last' = Reply(Respond(q, "MissingField"))
     ELSE IF nodeId \notin NodeIds
     THEN ipfs' = ipfs /\ last' = Reply(Respond(q, "NotFound"))
     ELSE /\ ipfs' = [ipfs EXCEPT
                        !.nodes[nodeId].files = @ \ {ipfsHash},
                        !.files = [h \in DOMAIN @ |->
                                     IF h = ipfsHash
                                     THEN LET pinnedTo == SelectSeq(@[h].pinnedTo,
                                                                    LAMBDA id : id # nodeId) IN
                                          [@[h] EXCEPT !.pinnedTo = pinnedTo,
                                                       !.replicationFactor = Len(pinnedTo)]
                                     ELSE @[h]]]
          /\ last' = Reply(Respond(q, "ok"))
  /\ UNCHANGED <<server, auditLog, clock, custodyDb, db, files, custodyChain, disk, req, nextName, nextId>>

\* toggleNodeStatus: online becomes offline and offline online.
ToggleNodeStatus(nodeId) ==
  /\ server = "ipfs"
  /\ ipfs' = [ipfs EXCEPT !.nodes[nodeId].status = IF @ = "online" THEN "offline" ELSE "online"]
  /\ last' = NoReply
  /\ UNCHANGED <<server, auditLog, clock, custodyDb, db, files, custodyChain, disk, req, nextName, nextId>>

IpfsHashes == {generateIPFSHash(c) : c \in Contents \cup {Tampered}}

NextIpfs ==
  \/ \E r \in Requests, c \in Contents, pins \in PinLists : AddFile(r, c, pins)
  \/ \E r \in Requests, h \in IpfsHashes, n \in NodeIds \cup {NoNode, ""} : PinFile(r, h, n)
  \/ \E r \in Requests : PinDone(r)
  \/ \E h \in IpfsHashes, n \in NodeIds \cup {NoNode, ""} : UnpinFile(h, n)
  \/ \E n \in NodeIds : ToggleNodeStatus(n)

\* Files added to, pinned in and unpinned from the simulated network.
SpecIpfs == InitIpfs /\ [][NextIpfs]_vars

\* ------------------------------------------- list and export endpoints
\* The stored records do not change while pages are read; filters are not
\* enumerated, every query is unfiltered.
MaxRecords == 2
MaxPageSize == 100                \* 'limit ... (default: 10, max: 100)'
BulkRecords == MaxPageSize + 1
MaxPage == 3

\* A stored record as an upload, and then perhaps one move, leave it.
ListRecord(fileId, createdAt, location) ==
  [NoDoc EXCEPT !.found = TRUE, !.fileId = fileId, !.filePath = <<location, fileId>>,
                !.checksum = "h1", !.originalFileName = fileId, !.fileSize = 2,
                !.mimeType = "text/plain", !.createdAt = createdAt,
                !.updatedAt = createdAt, !.currentLocation = location,
                !.status = "active",
                !.custodyChain =
                   <<[action |-> "upload", userId |-> "u1", location |-> "uploads",
                      timestamp |-> createdAt]>>
                   \o (IF location = "uploads" THEN <<>>
                       ELSE <<[action |-> "move", userId |-> "u1", location |-> location,
                               timestamp |-> createdAt]>>)]

\* The collections read: up to MaxRecords records in insertion order,
\* created at one of two times, and one collection of BulkRecords records.
Collections ==
  UNION {{[i \in 1..n |-> ListRecord(i, t[i], l[i])] :
             t \in {x \in [1..n -> 0..1] : \A i \in 1..n, j \in 1..n : i <= j => x[i] <= x[j]},
             l \in [1..n -> Locations]} : n \in 0..MaxRecords}
    \cup {[i \in 1..BulkRecords |-> ListRecord(i, IF 2 * i <= BulkRecords THEN 0 ELSE 1, "uploads")]}

\* The query strings sent: 0 stands for a parameter that is absent.
PageInputs == 0..MaxPage
LimitInputs == {0, 1, 2 * MaxPageSize}
SortByInputs == {"", "currentLocation"}
SortOrderInputs == {"", "asc"}
\* The order in which the database returns documents that the sort does
\* not order: the order of insertion, or the reverse of it.
TieOrders == {"natural", "reverse"}

NoListReply ==
  [kind |-> "idle", resp |-> "none", data |-> <<>>, currentPage |-> 0,
   recordsPerPage |-> 0, totalPages |-> 0, totalRecords |-> 0,
   hasNextPage |-> FALSE, hasPreviousPage |-> FALSE,
   sortField |-> "", sortOrder |-> 0, pages |-> 0, acc |-> <<>>,
   rows |-> <<>>, total |-> 0]

InitList ==
  /\ server \in {"routes", "simple"}
  /\ \E c \in Collections :
       /\ db = IF server = "routes" THEN c ELSE <<>>
       /\ files = IF server = "simple"
                  THEN [i \in DOMAIN c |-> [x \in DOMAIN c[i] \ {"found", "custodyChain"} |-> c[i][x]]]
                  ELSE <<>>
       /\ custodyChain = IF server = "simple" THEN [i \in DOMAIN c |-> c[i].custodyChain] ELSE <<>>
  /\ disk = [p \in Paths |-> Absent]
  /\ req = [r \in Requests |-> IdleReq]
  /\ nextName = 1
  /\ nextId = 1
  /\ clock = 0
  /\ custodyDb = <<>>
  /\ auditLog = <<>>
  /\ ipfs = IPFSSimulator
  /\ last = NoListReply

\* parseInt(req.query.x) || d
parseInt(q, d) == IF q = 0 THEN d ELSE q

\* Variant: the quotient is rounded down.
ceil_floor(a, b) == a \div b

\* Math.ceil(a / b) for b > 0
ceil(a, b) == (a + b - 1) \div b

\* The value a record is sorted by.
SortKey(record, sortField) ==
  IF sortField = "createdAt" THEN record.createdAt
  ELSE IF record.currentLocation = "archive" THEN 0 ELSE 1

\* find(filters) without a sort: the documents in the order the database
\* returns them.
find(collection, tie) ==
  [j \in 1..Len(collection) |->
     collection[IF tie = "natural" THEN j ELSE Len(collection) + 1 - j]]

\* find(filters).sort({ [sortField]: sortOrder }): the documents by their
\* sort value, ascending for 1 and descending for -1; documents with equal
\* sort values stay in the order the database returns them.
sort(collection, sortField, sortOrder, tie) ==
  LET group(k) == SelectSeq(find(collection, tie),
                            LAMBDA record : SortKey(record, sortField) = k) IN
  IF sortOrder = 1 THEN group(0) \o group(1) ELSE group(1) \o group(0)

\* .skip(n).limit(n), and Array.prototype.slice(skip, skip + limit)
slice(records, skip, limit) ==
  IF skip >= Len(records) THEN <<>>
  ELSE SubSeq(records, skip + 1, IF skip + limit <= Len(records) THEN skip + limit
                                 ELSE Len(records))

\* .select('-custodyChain')
select(record) == [x \in DOMAIN record \ {"custodyChain"} |-> record[x]]

\* The pages read so far one after the other from page 1 on with one
\* query, and their concatenation (history).
Paged(kind, page, limit, sortField, sortOrder, data) ==
  LET next == /\ last.kind = kind /\ last.resp = "ok"
              /\ last.recordsPerPage = limit
              /\ last.sortField = sortField /\ last.sortOrder = sortOrder
              /\ last.pages = last.currentPage /\ page = last.currentPage + 1 IN
  [pages |-> IF page = 1 THEN 1 ELSE IF next THEN page ELSE 0,
   acc |-> IF page = 1 THEN data ELSE IF next THEN last.acc \o data ELSE <<>>]

\* GET /api/upload/list, which leaves the custody chains out, and
\* GET /api/reports/files.
ListFiles(endpoint, pageQ, limitQ, sortBy, sortOrderQ, tie) ==
  /\ server = "routes"
  /\ LET page == parseInt(pageQ, 1)
         limit == parseInt(limitQ, 10)
         skip == (page - 1) * limit
         sortField == IF sortBy = "" THEN "createdAt" ELSE sortBy
         sortOrder == IF sortOrderQ = "asc" THEN 1 ELSE -1
         totalCount == Len(db)
         totalPages == ceil(totalCount, limit) IN
     \E found \in {slice(sort(db, sortField, sortOrder, tie), skip, limit)} :
       \E records \in {IF endpoint = "list"
                       THEN [j \in 1..Len(found) |-> select(found[j])]
                       ELSE found} :
         \E h \in {Paged(endpoint, page, limit, sortField, sortOrder, records)} :
           last' = [NoListReply EXCEPT !.kind = endpoint, !.resp = "ok", !.data = records,
                                       !.currentPage = page, !.totalPages = totalPages,
                                       !.totalRecords = totalCount, !.recordsPerPage = limit,
                                       !.hasNextPage = page < totalPages,
                                       !.hasPreviousPage = page > 1,
                                       !.sortField = sortField, !.sortOrder = sortOrder,
                                       !.pages = h.pages, !.acc = h.acc]
  /\ UNCHANGED <<server, ipfs, auditLog, clock, custodyDb, db, files, custodyChain, disk, req, nextName, nextId>>

\* simple: GET /api/upload/list, the values of the Map files as they were
\* inserted.
SimpleList(pageQ, limitQ) ==
  /\ server = "simple"
  /\ LET page == parseInt(pageQ, 1)
         limit == parseInt(limitQ, 10)
         skip == (page - 1) * limit
         allFiles == files
         totalRecords == Len(allFiles)
         totalPages == ceil(totalRecords, limit)
         paginatedFiles == slice(allFiles, skip, limit)
         h == Paged("simplelist", page, limit, "", 0, paginatedFiles) IN
     last' = [NoListReply EXCEPT !.kind = "simplelist", !.resp = "ok",
                                 !.data = paginatedFiles,
                                 !.currentPage = page, !.totalPages = totalPages,
                                 !.totalRecords = totalRecords, !.recordsPerPage = limit,
                                 !.hasNextPage = page < totalPages,
                                 !.hasPreviousPage = page > 1,
                                 !.pages = h.pages, !.acc = h.acc]
  /\ UNCHANGED <<server, ipfs, auditLog, clock, custodyDb, db, files, custodyChain, disk, req, nextName, nextId>>

\* Dates are in ticks of the clock, of which a second has two.
TicksPerSecond == 2

\* moment(date).format('YYYY-MM-DD HH:mm:ss'): the time as text, to the
\* second.
format(date) == <<"YYYY-MM-DD HH:mm:ss", date \div TicksPerSecond>>

\* Date.prototype.toISOString: the time as text, to the millisecond.
toISOString(date) == <<"ISO", date>>

\* One row of the export of the routes server.
Row(record, event) ==
  [fileId |-> record.fileId, originalFileName |-> record.originalFileName,
   fileSize |-> record.fileSize, mimeType |-> record.mimeType,
   checksum |-> record.checksum, currentLocation |-> record.currentLocation,
   status |-> record.status, action |-> event.action,
   actionTimestamp |-> format(event.timestamp), actionUserId |-> event.userId,
   actionLocation |-> event.location,
   recordCreatedAt |-> format(record.createdAt),
   recordUpdatedAt |-> format(record.updatedAt)]

\* One row of the export of the simple server.
SimpleRow(file, event) ==
  [fileId |-> file.fileId, originalFileName |-> file.originalFileName,
   fileSize |-> file.fileSize, checksum |-> file.checksum,
   currentLocation |-> file.currentLocation, status |-> file.status,
   action |-> event.action, actionTimestamp |-> toISOString(event.timestamp),
   actionUserId |-> event.userId, actionLocation |-> event.location]

\* flattened.push(...) over the records first..end: the rows pushed for
\* each record, one record after the other.
RECURSIVE push(_, _, _)
push(rows, first, end) ==
  IF first > end THEN <<>>
  ELSE IF first = end THEN rows[first]
  ELSE LET mid == (first + end) \div 2 IN
       push(rows, first, mid) \o push(rows, mid + 1, end)

\* Variant: one row per record, for its first event.
flattenCustodyData_first(records) ==
  LET rowsOf(record) == IF record.custodyChain = <<>> THEN <<>>
                        ELSE <<Row(record, record.custodyChain[1])>> IN
  push([i \in 1..Len(records) |-> rowsOf(records[i])], 1, Len(records))

\* flattenCustodyData: records.forEach over custodyChain.forEach, one row
\* pushed per event.
flattenCustodyData(records) ==
  LET rowsOf(record) ==
        [k \in 1..Len(record.custodyChain) |-> Row(record, record.custodyChain[k])] IN
  push([i \in 1..Len(records) |-> rowsOf(records[i])], 1, Len(records))

\* GET /api/reports/export/csv: 404 without records, else the flattened
\* rows as CSV with their number in X-Total-Records.
ExportCsv(tie) ==
  /\ server = "routes"
  /\ LET records == find(db, tie)
         flattenedData == flattenCustodyData(records) IN
     last' = IF Len(records) = 0
             THEN [NoListReply EXCEPT !.kind = "csv", !.resp = "NotFound"]
             ELSE [NoListReply EXCEPT !.kind = "csv", !.resp = "ok",
                                      !.rows = flattenedData,
                                      !.total = Len(flattenedData)]
  /\ UNCHANGED <<server, ipfs, auditLog, clock, custodyDb, db, files, custodyChain, disk, req, nextName, nextId>>

\* simple: the rows of the files in the order of the Map, each file with
\* the events of custodyChain.get(file.fileId) || [].
simpleFlatten(allFiles) ==
  LET rowsOf(file) ==
        LET chain == IF file.fileId \in DOMAIN custodyChain
                     THEN custodyChain[file.fileId] ELSE <<>> IN
        [k \in 1..Len(chain) |-> SimpleRow(file, chain[k])] IN
  push([i \in 1..Len(allFiles) |-> rowsOf(allFiles[i])], 1, Len(allFiles))

\* simple: GET /api/reports/export/csv
SimpleExportCsv ==
  /\ server = "simple"
  /\ LET flattenedData == simpleFlatten(files) IN
     last' = [NoListReply EXCEPT !.kind = "simplecsv", !.resp = "ok",
                                 !.rows = flattenedData,
                                 !.total = Len(flattenedData)]
  /\ UNCHANGED <<server, ipfs, auditLog, clock, custodyDb, db, files, custodyChain, disk, req, nextName, nextId>>

NextList ==
  \/ \E e \in {"list", "files"}, p \in PageInputs, l \in LimitInputs,
        sb \in SortByInputs, so \in SortOrderInputs, tie \in TieOrders :
       ListFiles(e, p, l, sb, so, tie)
  \/ \E p \in PageInputs, l \in LimitInputs : SimpleList(p, l)
  \/ \E tie \in TieOrders : ExportCsv(tie)
  \/ SimpleExportCsv

\* The list and export endpoints of both servers over a fixed collection.
SpecList == InitList /\ [][NextList]_vars

\* ================================================================ claims
IsPrefix(s, t) == Len(s) <= Len(t) /\ SubSeq(t, 1, Len(s)) = s

\* The handler whose step this is: the kind of request it serves.
ActingKind ==
  IF \E r \in Requests : req[r].kind # "idle" /\ req'[r] # req[r]
  THEN (CHOOSE k \in {req[r].kind : r \in {x \in Requests : req[x].kind # "idle" /\ req'[x] # req[x]}} : TRUE)
  ELSE IF \E r \in Requests : req'[r].kind # "idle"  /\ req'[r] # req[r]
  THEN (CHOOSE k \in {req'[r].kind : r \in {x \in Requests : req'[x].kind # "idle" /\ req'[x] # req[x]}} : TRUE)
  ELSE last'.kind

ActionOf(kind) == IF kind = "batch" THEN "move" ELSE kind

\* The events a step appends to a sequence.
Added(old, new) == SubSeq(new, Len(old) + 1, Len(new))

\* C1: in both servers, every step leaves every record in place and its event
\* sequence a prefix of the sequence after the step: no event is removed,
\* replaced or reordered, under any interleaving of upload, move (single and
\* batch), download and access-log handlers.
C1_AppendOnly ==
  [][/\ \A f \in DOMAIN db :
          f \in DOMAIN db' /\ IsPrefix(db[f].custodyChain, db'[f].custodyChain)
     /\ \A f \in DOMAIN custodyChain :
          f \in DOMAIN custodyChain' /\ IsPrefix(custodyChain[f], custodyChain'[f])]_vars

\* Two handlers have appended to the same document at the same time: a move
\* has saved its event after another handler's event it never loaded, so
\* its local array is not a prefix of the stored one.
C1_Witness ==
  \E f \in DOMAIN db : \E r \in Requests :
    /\ req[r].pc = "save2" /\ req[r].fileId = f
    /\ Len(db[f].custodyChain) = MaxChain
    /\ ~IsPrefix(req[r].doc.custodyChain, db[f].custodyChain)

WellFormed(chain) ==
  /\ Len(chain) >= 1
  /\ chain[1].action = "upload"
  /\ \A i \in 2..Len(chain) : chain[i].action \in {"move", "download", "access"}

\* C2: every record has a non-empty event sequence whose first event, and no
\* other, has action upload; and the events a move, download or access-log
\* handler appends to an existing record have action move, download and
\* access respectively.
C2_UploadFirst ==
  [][/\ \A f \in DOMAIN db' : WellFormed(db'[f].custodyChain)
     /\ \A f \in DOMAIN custodyChain' : WellFormed(custodyChain'[f])
     /\ \A f \in DOMAIN db :
          \A i \in 1..Len(Added(db[f].custodyChain, db'[f].custodyChain)) :
            Added(db[f].custodyChain, db'[f].custodyChain)[i].action = ActionOf(ActingKind)
     /\ \A f \in DOMAIN custodyChain :
          \A i \in 1..Len(Added(custodyChain[f], custodyChain'[f])) :
            Added(custodyChain[f], custodyChain'[f])[i].action = ActionOf(ActingKind)]_vars

\* A record that holds its upload followed by a move and a download.
C2_Witness ==
  \/ \E f \in DOMAIN db :
       {db[f].custodyChain[i].action : i \in 2..Len(db[f].custodyChain)} = {"move", "download"}
  \/ \E f \in DOMAIN custodyChain :
       {custodyChain[f][i].action : i \in 2..Len(custodyChain[f])} = {"move", "download"}

\* The location of the last upload or move event of a chain.
RECURSIVE LastPlaced(_)
LastPlaced(chain) ==
  IF chain = <<>> THEN ""
  ELSE IF chain[Len(chain)].action \in {"upload", "move"} THEN chain[Len(chain)].location
  ELSE LastPlaced(SubSeq(chain, 1, Len(chain) - 1))

\* C3: in every state of the routes server, every stored document's
\* currentLocation is the location of its last upload or move event.
C3_LocationFollowsEvents ==
  \A f \in DOMAIN db : db[f].currentLocation = LastPlaced(db[f].custodyChain)

\* C4: a download of a record whose stored bytes no longer hash to its
\* checksum when the handler looks the record up answers IntegrityViolation,
\* streams no bytes and appends no event.
C4_DownloadGate ==
  (last.kind = "download" /\ last.altered /\ last.resp # "none")
    => (last.resp = "IntegrityViolation" /\ last.streamed = "none" /\ last.appended = 0)

\* C5: a move of an active record whose stored bytes no longer hash to its
\* checksum when the handler looks the record up renames nothing and appends
\* no event, and, unless the file system or the database fails, answers
\* IntegrityViolation.
C5_MoveGate ==
  /\ \A r \in Requests :
       (req[r].kind = "move" /\ req[r].altered /\ isActive(req[r].doc))
         => (~req[r].moved /\ Len(req[r].doc.custodyChain) = req[r].nsaved)
  /\ (last.kind = "move" /\ last.altered /\ last.status = "active"
        /\ last.outcome \notin {"none", "Failed"})
       => (last.outcome = "IntegrityViolation" /\ ~last.moved /\ last.appended = 0)

\* C6: a move (single or one fileId of a batch) or a download whose inputs
\* are valid and whose record, as the handler read it, has status archived
\* or deleted ends with InvalidState, has renamed nothing, streamed nothing
\* and appended no event.
C6_InvalidState ==
  (/\ last.kind \in {"move", "batch", "download"}
   /\ last.found /\ last.status \in {"archived", "deleted"}
   /\ last.outcome # "none")
    => (/\ last.outcome = "InvalidState"
        /\ ~last.moved /\ last.appended = 0 /\ last.streamed = "none")

\* The second fileId of a batch is refused with InvalidState after the first
\* was moved and the document was archived in between.
C6_Witness ==
  /\ last.kind = "batch" /\ last.outcome = "InvalidState" /\ last.status = "archived"
  /\ Len(last.results) = 2 /\ last.results[1].outcome = "ok"

\* C7: moves of the same fileId that run at the same time take effect as if
\* one ran after the other: a move that gets past the lookup checks the
\* document and the path that are stored when it checks, a move that answers
\* ok has appended its event, and once no handler is running currentLocation
\* is the location of the last move event.
C7_Serialized ==
  /\ (last.kind = "move" /\ last.found /\ last.outcome # "none") => ~last.stale
  /\ (last.kind = "move" /\ last.outcome = "ok") => last.appended = 1
  /\ (\A r \in Requests : req[r].kind = "idle")
       => \A f \in DOMAIN db : db[f].currentLocation = LastPlaced(db[f].custodyChain)

\* C8: a move (single or one fileId of a batch) that ends with an error has
\* renamed no file and appended no event.
C8_NoPartialMutation ==
  (last.kind \in {"move", "batch"} /\ last.outcome \notin {"none", "ok"})
    => (~last.moved /\ last.appended = 0)

\* C9: in both servers an upload without userId is answered MissingActor and
\* its step leaves the set of records and every record as they were; no
\* record is ever created by an upload without userId.
C9_MissingActor ==
  [][/\ (last'.kind = "upload" /\ last'.userId = "" /\ last'.path # NoPath)
          => last'.resp = "MissingActor"
     /\ (last'.kind = "upload" /\ last'.resp = "MissingActor")
          => (db' = db /\ files' = files /\ custodyChain' = custodyChain)
     /\ \A f \in DOMAIN db' : db'[f].custodyChain[1].userId # ""
     /\ \A f \in DOMAIN custodyChain' : custodyChain'[f][1].userId # ""]_vars

\* An upload without userId is refused while the ledger holds a record.
C9_Witness ==
  /\ last.kind = "upload" /\ last.resp = "MissingActor"
  /\ files # <<>>

\* C10: in both servers an upload whose file is not stored or whose hashing
\* or document save fails is answered with an error and leaves the set of
\* records as it was, with no record for the path of that attempt; and a
\* record is created only with the hash of the bytes stored at its path.
C10_NoOrphanRecord ==
  [][/\ (last'.kind = "upload" /\ last'.resp \in {"StorageWriteFailed", "Failed"})
          => /\ db' = db /\ files' = files /\ custodyChain' = custodyChain
             /\ \A f \in DOMAIN db : db[f].filePath[2] # last'.path[2]
             /\ \A f \in DOMAIN files : files[f].filePath # last'.path
     /\ \A f \in DOMAIN db' \ DOMAIN db :
          /\ last'.kind = "upload" /\ last'.resp = "ok"
          /\ disk'[db'[f].filePath] # Absent
          /\ db'[f].checksum = sha256(disk'[db'[f].filePath])
     /\ \A f \in DOMAIN files' \ DOMAIN files :
          /\ last'.kind = "upload" /\ last'.resp = "ok"
          /\ disk'[files'[f].filePath] # Absent
          /\ files'[f].checksum = sha256(disk'[files'[f].filePath])]_vars

\* An upload has failed after its file was stored, while the ledger holds a
\* record of an earlier upload.
C10_Witness ==
  /\ last.kind = "upload" /\ last.resp = "Failed" /\ last.path # NoPath
  /\ files # <<>>

\* The stored event sequence of a record of either server.
EventsOf(f) ==
  IF f \in DOMAIN db THEN db[f].custodyChain
  ELSE IF f \in DOMAIN custodyChain THEN custodyChain[f]
  ELSE <<>>

HasEvent(f, action) == \E i \in 1..Len(EventsOf(f)) : EventsOf(f)[i].action = action

\* C11: in both servers a download handler is about to stream, or has
\* streamed or failed to stream, only after it has appended exactly one
\* download event, which the record still holds when the stream has failed;
\* bytes are sent only by a download that answers ok.
C11_EventBeforeStream ==
  /\ \A r \in Requests :
       (req[r].kind = "download" /\ req[r].pc = "stream")
         => (req[r].appended = 1 /\ req[r].streamed = "none" /\ HasEvent(req[r].fileId, "download"))
  /\ (last.kind = "download" /\ last.resp \in {"ok", "StreamFailed"})
       => (last.appended = 1 /\ HasEvent(last.fileId, "download"))
  /\ (last.kind = "download" /\ last.streamed # "none") => last.resp = "ok"

\* A download of the routes server whose stream failed although the file
\* is at the path the document names.
C11_Witness ==
  /\ server = "routes"
  /\ last.kind = "download" /\ last.resp = "StreamFailed" /\ last.appended = 1
  /\ existsSync(db[last.fileId].filePath)

\* C12: an access-log request with fileId and userId for a stored document
\* is never refused for the document's status or for its file: it answers
\* ok with exactly one access event appended, or, when the save is rejected
\* by the database, Failed with none.
C12_AccessUnconditional ==
  (last.kind = "access" /\ last.found)
    => \/ (last.resp = "ok" /\ last.appended = 1 /\ HasEvent(last.fileId, "access"))
       \/ (last.resp = "Failed" /\ last.appended = 0)

\* An access is logged on an archived document whose stored bytes were
\* overwritten.
C12_Witness ==
  /\ last.kind = "access" /\ last.resp = "ok"
  /\ last.status = "archived" /\ last.altered

\* The fields of a record that only an upload or a move may set.
Placement(rec) ==
  [currentLocation |-> rec.currentLocation, filePath |-> rec.filePath, status |-> rec.status]

\* C13: no step of a download or of an access-log request changes the
\* currentLocation, the filePath or the status of any record, in either
\* server, also when a move of the same record was committed between the
\* handler's load and its save.
C13_RetrieveFrame ==
  [][(ActingKind \in {"download", "access"})
       => ((\A f \in DOMAIN db : f \in DOMAIN db' /\ Placement(db'[f]) = Placement(db[f]))
           /\ (\A f \in DOMAIN files :
                 f \in DOMAIN files' /\ Placement(files'[f]) = Placement(files[f])))]_vars

\* A download or access-log handler has saved its event on a document that
\* a move relocated after the handler loaded it.
C13_Witness ==
  \E r \in Requests :
    /\ req[r].kind \in {"download", "access"}
    /\ req[r].appended = 1
    /\ req[r].fileId \in DOMAIN db
    /\ req[r].doc.currentLocation # db[req[r].fileId].currentLocation
    /\ db[req[r].fileId].custodyChain[Len(db[req[r].fileId].custodyChain)].action = req[r].kind

\* The location established by the nearest upload or move event at or
\* before position i of a sequence.
RECURSIVE PlacedAt(_, _)
PlacedAt(chain, i) ==
  IF i = 0 THEN ""
  ELSE IF chain[i].action \in {"upload", "move"} THEN chain[i].location
  ELSE PlacedAt(chain, i - 1)

LocationsAgree(chain) ==
  \A i \in 1..Len(chain) :
    chain[i].action \in {"download", "access"} => chain[i].location = PlacedAt(chain, i - 1)

\* C20: in every stored event sequence, each download or access event
\* carries the location of the nearest preceding upload or move event.
C20_EventLocation ==
  /\ \A f \in DOMAIN db : LocationsAgree(db[f].custodyChain)
  /\ \A f \in DOMAIN custodyChain : LocationsAgree(custodyChain[f])

\* C14: a move that answers ok returns as previousLocation the stored
\* currentLocation of the record right before the step that appended the
\* move event, and as newLocation the stored currentLocation right after it.
C14_MoveAnswer ==
  (last.kind = "move" /\ last.resp = "ok")
    => /\ last.previousLocation = last.before
       /\ last.newLocation = last.after

\* C15: when a move, a download or an access-log request answers ok, a status
\* request served from then on returns the record with the event the
\* handler appended and with the currentLocation that the returned events
\* imply (the location of their last upload or move event).
C15_NoStaleRead ==
  (last.kind \in {"move", "download", "access"} /\ last.resp = "ok")
    => LET record == get(last.fileId) IN
       /\ record.found
       /\ \E i \in 1..Len(record.custodyChain) :
            /\ record.custodyChain[i].action = last.kind
            /\ record.custodyChain[i].userId = last.userId
            /\ last.kind = "move" => record.custodyChain[i].location = last.newLocation
       /\ record.currentLocation = LastPlaced(record.custodyChain)

\* The fields of a record that are fixed when it is created.
Fixed(rec) ==
  [fileId |-> rec.fileId, checksum |-> rec.checksum,
   originalFileName |-> rec.originalFileName, fileSize |-> rec.fileSize,
   mimeType |-> rec.mimeType]

\* C16: no step changes the fileId, checksum, originalFileName, fileSize or
\* mimeType of a stored record, in either server, and the checksum of the
\* local document a handler works on (the one verifyFileIntegrity compares
\* with) is the stored one.
C16_FixedFields ==
  [][/\ \A f \in DOMAIN db : f \in DOMAIN db' /\ Fixed(db'[f]) = Fixed(db[f])
     /\ \A f \in DOMAIN files : f \in DOMAIN files' /\ Fixed(files'[f]) = Fixed(files[f])
     /\ \A r \in Requests :
          (req'[r].kind # "upload" /\ req'[r].doc.found)
            => req'[r].doc.checksum = db'[req'[r].fileId].checksum]_vars

\* A record whose bytes were overwritten has been moved, and a download of
\* it has passed the lookup: the stored checksum is still the one of the
\* uploaded content.
C16_Witness ==
  \E f \in DOMAIN db : \E r \in Requests :
    /\ HasEvent(f, "move")
    /\ req[r].kind = "download" /\ req[r].fileId = f /\ req[r].doc.found
    /\ existsSync(db[f].filePath)
    /\ sha256(disk[db[f].filePath]) # db[f].checksum

NonDecreasing(chain) ==
  \A i, j \in 1..Len(chain) : i < j => chain[i].timestamp <= chain[j].timestamp

\* C18: in every stored event sequence, of either server, the timestamps
\* are non-decreasing in sequence order.
C18_TimestampOrder ==
  /\ \A f \in DOMAIN db : NonDecreasing(db[f].custodyChain)
  /\ \A f \in DOMAIN custodyChain : NonDecreasing(custodyChain[f])

\* C19: in every state, every stored record's createdAt is the timestamp of
\* its first event and its updatedAt the timestamp of its last event.
C19_RecordTimes ==
  /\ \A f \in DOMAIN db :
       /\ db[f].createdAt = db[f].custodyChain[1].timestamp
       /\ db[f].updatedAt = db[f].custodyChain[Len(db[f].custodyChain)].timestamp
  /\ \A f \in DOMAIN files :
       /\ files[f].createdAt = custodyChain[f][1].timestamp
       /\ files[f].updatedAt = custodyChain[f][Len(custodyChain[f])].timestamp

\* C17: a hash_generated command for a path whose fileId already has a
\* record in the custody database fails with DuplicateId and leaves the
\* database as it is: the record is neither replaced nor appended to.
C17_DuplicateId ==
  [][\A p \in HashPaths :
       (last'.kind = "hash_generated" /\ last'.path = p /\ last'.resp # "Failed"
          /\ generateFileId(p) \in DOMAIN custodyDb)
         => (last'.resp = "DuplicateId" /\ custodyDb' = custodyDb)]_vars

\* One record of the custody database holds the hash_generated entries of
\* two different files that were at the same path one after the other, with
\* the size of the first.
C17_Merged ==
  \E f \in DOMAIN custodyDb :
    /\ Len(custodyDb[f].custodyChain) = 2
    /\ custodyDb[f].custodyChain[1].hash = sha256("c1")
    /\ custodyDb[f].custodyChain[2].hash = sha256(Tampered)
    /\ custodyDb[f].fileSize = size("c1")
    /\ last.kind = "hash_generated" /\ last.resp = "ok"

\* C21: an answer IntegrityViolation is given only for bytes that were read
\* and hash to another value, and an answer MissingBytes only when no file
\* is at the path: by the download route, whose integrity check is the
\* step before the answer, and by the hash utility's verify command.
C21_DistinctFailures ==
  [][/\ (last'.kind = "download" /\ last'.resp = "IntegrityViolation")
          => \E r \in Requests :
               /\ req[r].pc = "verify" /\ req'[r] # req[r]
               /\ existsSync(req[r].doc.filePath)
               /\ sha256(disk[req[r].doc.filePath]) # req[r].doc.checksum
     /\ (last'.kind = "download" /\ last'.resp = "MissingBytes")
          => \E r \in Requests :
               /\ req[r].pc = "found" /\ req'[r] # req[r]
               /\ ~existsSync(req[r].doc.filePath)
     /\ (last'.kind = "verify" /\ last'.resp = "IntegrityViolation")
          => last'.streamed # "none"]_vars

\* The last custody entry of the record of the path the command was run on
\* has the given action and hash.
Persisted(filePath, action, hash) ==
  LET fileId == generateFileId(filePath) IN
  /\ fileId \in DOMAIN custodyDb
  /\ custodyDb[fileId].custodyChain # <<>>
  /\ LET entry == custodyDb[fileId].custodyChain[Len(custodyDb[fileId].custodyChain)] IN
     entry.action = action /\ entry.hash = hash

Audited(filePath, action, hash) ==
  /\ auditLog # <<>>
  /\ auditLog[Len(auditLog)].action = action
  /\ auditLog[Len(auditLog)].fileId = generateFileId(filePath)
  /\ auditLog[Len(auditLog)].hash = hash

\* C22: when the track command or the move command of the hash utility
\* answers with success, the custody entry it made is the last entry of the
\* file's record in the custody database and its event is the last event of
\* the audit log.
C22_NoSilentLoss ==
  (last.kind \in {"hash_generated", "moved"} /\ last.resp = "ok")
    => /\ Persisted(last.path, last.kind, last.streamed)
       /\ Audited(last.path, last.kind, last.streamed)

\* The lower-case spelling of each hex string a caller passes.
LowerCase ==
  [h \in ExpectedHashes |->
     CASE h = "H1" -> "h1"
       [] OTHER -> h]

\* C23: the hash and verify commands of the hash utility answer, for bytes
\* they could read under a supported algorithm, with the digest of those
\* bytes under that algorithm, and verify answers true exactly when that
\* digest equals the lower-case spelling of expectedHash.
C23_VerifyAgrees ==
  /\ (last.kind \in {"hash", "verify"} /\ last.streamed # "none")
       => /\ last.algorithm \in supportedAlgorithms
          /\ last.streamed = digest(disk[last.path], last.algorithm)
  /\ (last.kind = "verify" /\ last.streamed # "none")
       => ((last.resp = "ok") <=> (last.streamed = LowerCase[last.expectedHash]))

\* verify has answered true for an expected hash given in upper case.
C23_Witness ==
  /\ last.kind = "verify" /\ last.resp = "ok"
  /\ last.expectedHash = "H1" /\ last.streamed = "h1"

C24_WitnessText ==
  last.kind = "text_hash" /\ last.algorithm = "crc32" /\ last.resp = "Unsupported"

\* C28: when the move command of the hash utility answers success for a
\* tracked file, the file's custody chain in the custody database is the
\* chain it had before followed by one new entry with action 'moved', and
\* the record's currentPath is the new path.
C28_MoveRecorded ==
  [][(last'.kind = "moved" /\ last'.resp = "ok")
       => LET fileId == generateFileId(last'.path) IN
            /\ fileId \in DOMAIN custodyDb /\ fileId \in DOMAIN custodyDb'
            /\ LET before == custodyDb[fileId].custodyChain
                   after == custodyDb'[fileId].custodyChain IN
                 /\ Len(after) = Len(before) + 1
                 /\ SubSeq(after, 1, Len(before)) = before
                 /\ after[Len(after)].action = "moved"
            /\ custodyDb'[fileId].currentPath = last'.newLocation]_vars

\* C29: when the move command of the hash utility finds that the file's
\* current SHA-256 hash differs from the hash of its last custody entry,
\* it does not answer success and it adds nothing to the custody chain.
C29_MoveVerifies ==
  (last.kind = "moved" /\ last.altered)
    => /\ last.resp # "ok"
       /\ last.appended = 0

\* C30: in every state of the routes server the filePath of every active
\* record names a file that exists on disk, and no download or single
\* move answers that the physical file was not found.
C30_StorageRefCurrent ==
  server = "routes"
    => /\ \A f \in DOMAIN db : isActive(db[f]) => existsSync(db[f].filePath)
       /\ last.kind \in {"download", "move"} => last.resp # "MissingBytes"

\* The records in the order the list is specified to have: by the sort
\* value in the direction asked for, records with equal sort values by
\* fileId, every stored record exactly once.
IsFullSorted(records, sortField, sortOrder) ==
  /\ Len(records) = Len(db)
  /\ \A f \in DOMAIN db : \E i \in 1..Len(records) : records[i].fileId = db[f].fileId
  /\ \A i \in 1..Len(records), j \in 1..Len(records) :
       i < j => LET a == SortKey(records[i], sortField)
                    b == SortKey(records[j], sortField) IN
                \/ (IF sortOrder = 1 THEN a < b ELSE a > b)
                \/ a = b /\ records[i].fileId < records[j].fileId

\* C25: a page of the list endpoints of the routes server has at most
\* recordsPerPage records, and the pages 1, 2, ... up to the last one, read
\* one after the other with one query, concatenate to all stored records
\* sorted by the sort field in the direction asked for, records with equal
\* sort values ordered by fileId, each record exactly once.
C25_PagesConcatenate ==
  (last.kind \in {"list", "files"} /\ last.resp = "ok")
    => /\ Len(last.data) <= last.recordsPerPage
       /\ (last.pages = last.currentPage /\ last.currentPage >= last.totalPages)
            => IsFullSorted(last.acc, last.sortField, last.sortOrder)

\* C26: whatever limit is asked for, a page of a list endpoint of either
\* server holds at most MaxPageSize records.
C26_LimitClamped ==
  (last.kind \in {"list", "files", "simplelist"} /\ last.resp = "ok")
    => Len(last.data) <= MaxPageSize

\* The stored records with their custody chains, by fileId.
ChainOf(fileId) ==
  IF server = "routes" THEN db[fileId].custodyChain ELSE custodyChain[fileId]

StoredIds == IF server = "routes" THEN DOMAIN db ELSE DOMAIN files

RECURSIVE SumChains(_)
SumChains(ids) ==
  IF ids = {} THEN 0
  ELSE LET f == CHOOSE x \in ids : TRUE IN Len(ChainOf(f)) + SumChains(ids \ {f})

\* C27: the rows of a CSV export are one row per stored record and event
\* of its custody chain: their number is the sum of the chain lengths, the
\* rows of one record are contiguous and follow its chain in order, each
\* row carries the fields of its record and of its event, and
\* X-Total-Records is the number of rows.
C27_FlattenRows ==
  (last.kind \in {"csv", "simplecsv"} /\ last.resp = "ok")
    => /\ Len(last.rows) = SumChains(StoredIds)
       /\ last.total = Len(last.rows)
       /\ \A i \in 1..Len(last.rows), k \in 1..Len(last.rows) :
            (i < k /\ last.rows[i].fileId = last.rows[k].fileId)
              => \A j \in i..k : last.rows[j].fileId = last.rows[i].fileId
       /\ \A f \in StoredIds :
            LET mine == SelectSeq(last.rows, LAMBDA row : row.fileId = f)
                record == IF server = "routes" THEN db[f] ELSE files[f] IN
              /\ Len(mine) = Len(ChainOf(f))
              /\ \A k \in 1..Len(mine) :
                   /\ mine[k].action = ChainOf(f)[k].action
                   /\ mine[k].actionUserId = ChainOf(f)[k].userId
                   /\ mine[k].actionLocation = ChainOf(f)[k].location
                   /\ mine[k].actionTimestamp =
                        IF server = "routes"
                        THEN <<"YYYY-MM-DD HH:mm:ss", ChainOf(f)[k].timestamp \div TicksPerSecond>>
                        ELSE <<"ISO", ChainOf(f)[k].timestamp>>
                   /\ mine[k].checksum = record.checksum
                   /\ mine[k].originalFileName = record.originalFileName
                   /\ mine[k].fileSize = record.fileSize
                   /\ mine[k].currentLocation = record.currentLocation
                   /\ mine[k].status = record.status

\* The routes server has exported two records of which one has two events.
C27_Witness ==
  /\ last.kind = "csv" /\ last.resp = "ok"
  /\ Len(db) = 2 /\ last.total = 3

\* The simple server has exported a record with two events.
C27_WitnessSimple ==
  /\ last.kind = "simplecsv" /\ last.total = 2 /\ Len(files) = 1

\* C31: the bytes that a successful download of the routes server streams
\* hash to the checksum of the record, whatever is written to the stored
\* file between the integrity check and the streaming.
C31_StreamedIntact ==
  (server = "routes" /\ last.kind = "download" /\ last.resp = "ok")
    => sha256(last.streamed) = db[last.fileId].checksum

\* C32: every download request that a handler has taken up is eventually
\* answered, with the file or with an error.
C32_RetrieveCompletes ==
  \A r \in Requests : (req[r].kind = "download") ~> (req[r].kind = "idle")

\* C33: every fileId of a batch move that is reported successful has had
\* exactly one move event appended, and every fileId reported failed has
\* had no file renamed and no event appended; the answer reports between
\* one and MaxBatch fileIds when the list is not empty.
C33_BatchItems ==
  (server = "routes" /\ last.kind = "batch" /\ last.results # <<>>)
    => /\ (last.outcome = "ok") => last.appended = 1
       /\ (last.outcome \notin {"ok", "none"}) => (~last.moved /\ last.appended = 0)
       /\ Len(last.results) <= MaxBatch

\* C34: every file in the upload storage is the file of a stored record
\* or of an upload still being handled; an upload that has failed has left
\* no file behind.
C34_NoOrphanBytes ==
  \A p \in Paths :
    existsSync(p)
      => \/ \E f \in DOMAIN db : db[f].filePath = p
         \/ \E f \in DOMAIN files : files[f].filePath = p
         \/ \E r \in Requests : req[r].kind = "upload" /\ req[r].path = p

\* The number of records the list endpoints have to choose from.
Stored == IF server = "routes" THEN Len(db) ELSE Len(files)

\* C35: the pagination of every list answer of both servers reports the
\* number of stored records, the least number of pages of recordsPerPage
\* records that hold them, a previous page exactly when the page is not
\* the first, and a next page exactly when records lie beyond this page;
\* the page holds the records left after the pages before it, up to
\* recordsPerPage.
C35_PaginationMetadata ==
  (last.kind \in {"list", "files", "simplelist"} /\ last.resp = "ok")
    => LET page == last.currentPage
           limit == last.recordsPerPage
           left == IF Stored > (page - 1) * limit THEN Stored - (page - 1) * limit ELSE 0 IN
       /\ page >= 1 /\ limit >= 1
       /\ last.totalRecords = Stored
       /\ last.totalPages * limit >= Stored
       /\ (last.totalPages - 1) * limit < Stored \/ (Stored = 0 /\ last.totalPages = 0)
       /\ last.hasPreviousPage <=> (page > 1)
       /\ last.hasNextPage <=> (page * limit < Stored)
       /\ Len(last.data) = (IF limit < left THEN limit ELSE left)

\* The last page of two records read one per page: a page before it and
\* none after it.
C35_Witness ==
  /\ last.kind \in {"list", "simplelist"} /\ last.currentPage = 2 /\ last.recordsPerPage = 1
  /\ Stored = 2 /\ last.hasPreviousPage /\ ~last.hasNextPage /\ Len(last.data) = 1

\* A middle page of 101 records in pages of 10: the page count is rounded
\* up and a next page is reported.
C35_WitnessBeyond ==
  /\ last.kind = "files" /\ last.recordsPerPage = 10 /\ last.totalPages = 11
  /\ last.currentPage = 3 /\ last.hasNextPage /\ Len(last.data) = 10

\* C36: no step of concurrent track and move commands removes or rewrites
\* an event of the audit log, and when no command is running the log has
\* an event for every custody entry the database holds, with the entry's
\* action, fileId and hash.
C36_AuditAppendOnly ==
  [][/\ IsPrefix(auditLog, auditLog')
     /\ (\A r \in Requests : req'[r].pc = "idle")
          => \A f \in DOMAIN custodyDb' :
               \A i \in 1..Len(custodyDb'[f].custodyChain) :
                 \E j \in 1..Len(auditLog') :
                   /\ auditLog'[j].fileId = f
                   /\ auditLog'[j].action = custodyDb'[f].custodyChain[i].action
                   /\ auditLog'[j].hash = custodyDb'[f].custodyChain[i].hash]_vars

\* The paths of a verification that have one of the given statuses.
WithStatus(statuses) == {p \in DOMAIN last.details : last.details[p] \in statuses}

\* C37: verifyManifest gives every entry of the manifest one status, its
\* counts are the numbers of entries with status verified, with status
\* failed or error, and with status missing, they add up to totalFiles, and
\* an entry is verified only if its file exists and the digest of its bytes
\* under the manifest's algorithm is the manifest's hash.
C37_ManifestCounts ==
  last.kind = "verifyManifest"
    => /\ DOMAIN last.details = DOMAIN last.manifest.files
       /\ last.totalFiles = Cardinality(DOMAIN last.manifest.files)
       /\ last.verified = Cardinality(WithStatus({"verified"}))
       /\ last.failed = Cardinality(WithStatus({"failed", "error"}))
       /\ last.missing = Cardinality(WithStatus({"missing"}))
       /\ last.verified + last.failed + last.missing = last.totalFiles
       /\ \A p \in WithStatus({"verified"}) :
            /\ existsSync(p)
            /\ last.algorithm \in supportedAlgorithms
            /\ digest(disk[p], last.algorithm) = LowerCase[last.manifest.files[p].hash]
       /\ \A p \in WithStatus({"missing"}) : ~existsSync(p)

\* A manifest of two entries of which one is verified and one is missing.
C37_Witness ==
  /\ last.kind = "verifyManifest" /\ last.totalFiles = 2
  /\ last.verified = 1 /\ last.missing = 1

\* A manifest of two entries that both fail: one had an error when the
\* manifest was generated, the other has a hash that differs.
C37_WitnessFailed ==
  /\ last.kind = "verifyManifest" /\ last.failed = 2
  /\ WithStatus({"error"}) # {} /\ WithStatus({"failed"}) # {}

\* The nodes whose file set contains the hash.
HoldingNodes(ipfsHash) == {n \in NodeIds : ipfsHash \in ipfs.nodes[n].files}

\* C38: every file of the registry has a replicationFactor equal to the
\* number of nodes whose file set contains it, and its pinnedTo lists exactly
\* those nodes, each once.
C38_ReplicationFactor ==
  \A h \in DOMAIN ipfs.files :
    LET file == ipfs.files[h] IN
    /\ file.replicationFactor = Cardinality(HoldingNodes(h))
    /\ {file.pinnedTo[i] : i \in 1..Len(file.pinnedTo)} = HoldingNodes(h)
    /\ \A i, j \in 1..Len(file.pinnedTo) : file.pinnedTo[i] = file.pinnedTo[j] => i = j

====
